---------------------------- MODULE Spec2Model ----------------------------
(***************************************************************************)
(* Model of the scraping / enrichment core of gaaprojects/apify_project:   *)
(*   - the sreality listing job          (src/unnamed/part_000:524-625)    *)
(*   - the bezrealitky listing job       (src/unnamed/part_000:248-409)    *)
(*   - the identity key of a record      (src/unnamed/part_000:225, 369,   *)
(*                                        503)                             *)
(*   - RateLimiter.wait                  (src/unnamed/part_002:205-224)    *)
(*   - retry                             (src/unnamed/part_002:229-251)    *)
(*   - saveProperties                    (src/unnamed/part_002:26-43)      *)
(*   - the cuzk enrichment job           (src/unnamed/part_001:164-243)    *)
(*   - parseRoomsCount, parsePrice, extractCity and extractDistrict        *)
(*                                       (src/unnamed/part_002:108-295)    *)
(*   - buildSearchUrl and the types the handler reads back from the URL    *)
(*                                       (src/unnamed/part_000:213-219,    *)
(*                                        305-308)                         *)
(*   - the Chatbot component  (src/frontend/src/components/Chatbot.tsx)    *)
(*   - the properties page    (src/frontend/src/app/properties/page.tsx)   *)
(* Each component has its own specification (SpecSreality, SpecBz,         *)
(* SpecBzLive, SpecIdentity, SpecRate, SpecRateShared, SpecRetry,          *)
(* SpecSaveAll, SpecCuzk, SpecRooms, SpecPrice, SpecLocality, SpecUrl,     *)
(* SpecChatbot, SpecPropertiesPage); the variables of the other            *)
(* components keep their initial values there.  SpecListingJobs runs       *)
(* either of the two listing jobs.                                         *)
(***************************************************************************)
EXTENDS Integers, Sequences, FiniteSets, TLC

VARIABLES
    \* ---- listing job (sreality main) ----
    cities,          \* input.cities
    propertyTypes,   \* input.propertyTypes
    maxProperties,   \* input.maxProperties
    totalScraped,    \* let totalScraped
    pc,              \* position of main
    unit,            \* index of the (city, propType, transType) iteration
    page,            \* let page
    hasMore,         \* let hasMore
    response,        \* const response (of the current page)
    idx,             \* position of `for (const estate of estates)`
    fetched,         \* history: page numbers fetched for the current unit
    lastFetch,       \* history: how the last fetch of the unit ended
    scenario,        \* history: pages of the two-page scenario seen so far
    parsed,          \* history: parseEstate calls for the current page
    unitScraped,     \* history: records the current unit has yielded
    unitClean,       \* history: no entry of this unit ended in a catch
    saveCalls,       \* history: saveProperty invocations of the run
                     \*          (counted up to SaveCallsCap)
    delivered,       \* history: POSTs the persistence API accepted (2xx)
                     \*          (counted up to DeliveredCap)
    lastEntry        \* history: how the entry just processed went
                     \*          (NoEntry outside the entry loop)

VARIABLES
    \* ---- RateLimiter ----
    clock,            \* Date.now()
    requestsPerMinute,\* the constructor's argument
    minDelayMs,       \* this.minDelayMs
    lastRequestTime,  \* this.lastRequestTime
    rlpc,             \* position of the caller inside wait()
    wakeAt,           \* when the pending sleep(waitTime) timer is due
    starts,           \* history: clock at the start of each wait()
    sleeps,           \* history: waitTime of each wait() (0: no sleep)
    completions       \* history: clock at the completion of each wait()

VARIABLES
    \* ---- retry(fn, maxRetries, baseDelay) ----
    fn,               \* what the i-th invocation of fn settles to
    maxRetries,       \* parameter
    baseDelay,        \* parameter
    attempt,          \* let attempt
    lastError,        \* let lastError
    rpc,              \* position inside retry
    invocations,      \* history: invocations of fn so far
    sleepLog,         \* history: the sleep(delay) calls, in order
    settled           \* how the promise of retry settled

VARIABLES
    \* ---- cuzk enrichment job (main) ----
    input,            \* Actor.getInput(): which list it carries, how long
    properties,       \* let properties (the ids of the work list)
    cpc,              \* position of main
    prop,             \* index of `for (const prop of properties)`
    cadastralData,    \* let cadastralData
    enriched,         \* let enriched
    failed,           \* let failed
    lookups,          \* history: requests sent for the current property
    netFailure,       \* history: a lookup of the current property failed
                      \*          on the network
    verdict,          \* history: how the current property was counted
    patched           \* history: what the PATCH of the current property did

VARIABLES
    \* ---- bezrealitky listing job (main, the router's default handler and
    \*      the PlaywrightCrawler that runs it) ----
    bzMaxProperties, \* input.maxProperties
    bzTotalScraped,  \* let totalScraped
    bzQueue,         \* the crawler's request queue (startUrls, then what
                     \* enqueueLinks adds)
    bzSlots,         \* the crawler's request slots: what each is doing
    bzpc,            \* position of main: crawler.run in progress or over
    bzLast,          \* history: how the last listing or card went
    bzWaited,        \* history: a rateLimiter.wait() has completed since
                     \* the last page load was issued
    bzEnded          \* history: how the handler call of the last request
                     \* ended ("none" while the request is in progress)

inputVars == <<cities, propertyTypes, maxProperties>>
unitVars == <<fetched, lastFetch, scenario, parsed, unitScraped, unitClean>>
runVars == <<saveCalls, delivered, lastEntry>>

listingVars == <<inputVars, totalScraped, pc, unit, page, hasMore, response,
                 idx, unitVars, runVars>>

rlVars == <<clock, requestsPerMinute, minDelayMs, lastRequestTime, rlpc,
            wakeAt, starts, sleeps, completions>>

retryVars == <<fn, maxRetries, baseDelay, attempt, lastError, rpc,
               invocations, sleepLog, settled>>

cuzkVars == <<input, properties, cpc, prop, cadastralData, enriched, failed,
              lookups, netFailure, verdict, patched>>

VARIABLES
    \* ---- saveProperties(properties) ----
    spItems,         \* what the POST of each property of the list does
    spIdx,           \* position of `for (const property of properties)`
    spSaved,         \* let saved
    spFailed,        \* let failed
    sppc,            \* position inside saveProperties
    spAttempts       \* history: the elements saveProperty was called for

spVars == <<spItems, spIdx, spSaved, spFailed, sppc, spAttempts>>

VARIABLES
    \* ---- one source item normalized by two runs of a listing job ----
    idEntry,         \* the raw item the unchanged source serves to both runs
    idNow,           \* Date.now() of each run when it reaches the item
    idTotal,         \* totalScraped of each run when it reaches the item
    idRecord         \* what each run made of the item and did with it

idVars == <<idEntry, idNow, idTotal, idRecord>>

VARIABLES
    \* ---- several callers of one RateLimiter ----
    rcCallers,       \* each caller's position inside wait(), its timer and
                     \* the completed calls it found when it read
                     \* lastRequestTime
    rcStarted,       \* history: wait() calls started so far
    rcCalls          \* history: the completed calls, in completion order

rcVars == <<rcCallers, rcStarted, rcCalls>>

bzVars == <<bzMaxProperties, bzTotalScraped, bzQueue, bzSlots, bzpc, bzLast,
           bzWaited, bzEnded>>

VARIABLES
    \* ---- one call of a parsing helper or of a record builder ----
    parseFn,         \* the function that is called
    parseArg,        \* the text it is called with
    parseRet,        \* what it returned (Pending before the call)
    parseRooms       \* the rooms field of the record a builder returned

parseVars == <<parseFn, parseArg, parseRet, parseRooms>>

VARIABLES
    \* ---- one bezrealitky work unit, its URL and what is read back ----
    urlUnit,         \* city, propType and transType of the unit
    urlRequest,      \* request.url: what buildSearchUrl returned
    urlTypes         \* propertyType and transactionType the handler derives

urlVars == <<urlUnit, urlRequest, urlTypes>>

VARIABLES
    \* ---- Chatbot component ----
    cbMessages,      \* messages: the type of each message, in order
    cbInput,         \* input.trim() is not empty
    cbIsLoading,     \* isLoading
    cbPending,       \* a recommendation request is in flight
    cbSinceClear     \* history: no clear yet, cleared and nothing sent
                     \* since, or a message sent since the last clear

cbVars == <<cbMessages, cbInput, cbIsLoading, cbPending, cbSinceClear>>

VARIABLES
    \* ---- PropertiesPage component ----
    ppPage,          \* page
    ppFilter,        \* propertyType, priceAssessment, rooms, debouncedSearch
    ppProperties,    \* properties: the request whose items are displayed
    ppTotal,         \* total
    ppLoading,       \* loading
    ppError,         \* error
    ppInFlight,      \* the requests that have no response yet
    ppIssued         \* history: requests made so far

ppVars == <<ppPage, ppFilter, ppProperties, ppTotal, ppLoading, ppError,
            ppInFlight, ppIssued>>

uiVars == <<cbVars, ppVars>>

vars == <<listingVars, rlVars, retryVars, cuzkVars, bzVars, spVars, idVars,
          rcVars, parseVars, urlVars, uiVars>>

\* what an action of one component leaves alone
notListing == <<rlVars, retryVars, cuzkVars, bzVars, spVars, idVars,
    rcVars, parseVars, urlVars, uiVars>>
notRate == <<listingVars, retryVars, cuzkVars, bzVars, spVars, idVars,
    rcVars, parseVars, urlVars, uiVars>>
notRetry == <<listingVars, rlVars, cuzkVars, bzVars, spVars, idVars,
    rcVars, parseVars, urlVars, uiVars>>
notCuzk == <<listingVars, rlVars, retryVars, bzVars, spVars, idVars,
    rcVars, parseVars, urlVars, uiVars>>
notBz == <<listingVars, rlVars, retryVars, cuzkVars, spVars, idVars,
    rcVars, parseVars, urlVars, uiVars>>
notSp == <<listingVars, rlVars, retryVars, cuzkVars, bzVars, idVars,
    rcVars, parseVars, urlVars, uiVars>>
notId == <<listingVars, rlVars, retryVars, cuzkVars, bzVars, spVars, rcVars,
    parseVars, urlVars, uiVars>>
\* the callers share the RateLimiter and its clock
notRc == <<listingVars, retryVars, cuzkVars, bzVars, spVars, idVars, rlpc,
           wakeAt, starts, sleeps, completions, parseVars,
           urlVars, uiVars>>
notParse == <<listingVars, rlVars, retryVars, cuzkVars, bzVars, spVars,
    idVars, rcVars, urlVars, uiVars>>
notUrl == <<listingVars, rlVars, retryVars, cuzkVars, bzVars, spVars,
    idVars, rcVars, parseVars, uiVars>>
notCb == <<listingVars, rlVars, retryVars, cuzkVars, bzVars, spVars,
    idVars, rcVars, parseVars, urlVars, ppVars>>
notPp == <<listingVars, rlVars, retryVars, cuzkVars, bzVars, spVars,
    idVars, rcVars, parseVars, urlVars, cbVars>>

-----------------------------------------------------------------------------
(* Bounds of the model *)

\* most entries one page of the source holds (the request's per_page, scaled)
MaxPageLen == 2
\* pages after which the source is exhausted (it answers empty or fails)
MaxPage == 2
\* largest result_size the source reports
MaxResultSize == 3
\* largest cutoff a run is configured with
MaxCutoff == 3
\* last clock value of a RateLimiter run (ms)
MaxClock == 12
\* wait() calls of a RateLimiter run
MaxCalls == 3
\* largest maxRetries retry is called with
MaxRetryLimit == 4
\* longest work list of an enrichment run
MaxProps == 2
\* request slots of the crawler's pool
MaxSlots == 2
\* longest list saveProperties is called with
MaxBatch == 3
\* longest href of a listing card, in characters
MaxLinkLen == 3
\* longest id string of an embedded listing, in characters
MaxIdLen == 2
\* largest hash_id of an estate
MaxHashId == 11
\* largest Date.now() of a run that normalizes an item
MaxNow == 1
\* callers that share one RateLimiter
MaxCallers == 2

\* longest room-layout text and estate name, in characters
MaxRoomsLen == 5

\* most pieces (digit groups, separators, markers) of a price text
MaxPricePieces == 5

\* most pieces (words, separators) of a locality text
MaxLocalityPieces == 5

\* most pieces (letters, blanks, a word) of a city name
MaxCityPieces == 4

\* most messages a conversation holds before the user stops sending
MaxMessages == 7

\* most requests the properties page makes
MaxRequests == 5

\* pages of results a filter setting has
MaxUiPage == 2

-----------------------------------------------------------------------------
(* Shared constants and run inputs *)

CITIES == <<"Praha", "Brno", "Ostrava", "Plzen">>

\* transactionTypes is left at its destructuring default
transactionTypes == <<"sale">>

\* the inputs a run is started with (the first one is the default of
\* propertyTypes with one city)
ScrapingInputs ==
    { [cities |-> <<"Praha">>, propertyTypes |-> <<"apartment", "house">>],
      [cities |-> <<"Brno", "Praha">>, propertyTypes |-> <<"apartment">>],
      [cities |-> <<"Kladno">>, propertyTypes |-> <<"apartment">>] }

Range(s) == { s[i] : i \in DOMAIN s }

-----------------------------------------------------------------------------
(* UpsertClient.saveProperty: the outcome of the POST decides whether the  *)
(* call returns or throws.                                                 *)

PostOutcomes == {"ok", "non2xx", "non2xxBodyError", "networkError"}

\* saveProperty rethrows what fetch() or response.text() throws and returns
\* normally otherwise, also on a non-2xx response
SavePropertyThrows(post) == post \in {"networkError", "non2xxBodyError"}

\* the persistence API accepted the record
PostAccepted(post) == post = "ok"

PushOutcomes == {"ok", "throws"}

\* How one entry of a page can go: parseEstate throws (on an entry that is
\* an object of the wrong shape, or on an entry that is null or undefined),
\* or it returns and saveProperty is called; if that returns, Actor.pushData
\* is called.
EntryOutcomes ==
    { [parse |-> "throws", post |-> "none", push |-> "none"],
      [parse |-> "throwsOnNullish", post |-> "none", push |-> "none"] }
    \cup { [parse |-> "ok", post |-> o, push |-> "none"] :
              o \in { q \in PostOutcomes : SavePropertyThrows(q) } }
    \cup { [parse |-> "ok", post |-> o, push |-> u] :
              o \in { q \in PostOutcomes : ~SavePropertyThrows(q) },
              u \in PushOutcomes }

\* the inner catch logs `estate.hash_id` (`listing.id`): reading it throws
\* again when the entry itself is null or undefined, and that TypeError
\* leaves the inner try statement
CatchLogThrows(o) == o.parse = "throwsOnNullish"

NoEntry == [parse |-> "none", post |-> "none", push |-> "none"]

CountedWhenSaved(o) == o.parse = "ok" /\ ~SavePropertyThrows(o.post)

\* saveProperty and Actor.pushData both returned: `totalScraped++` is
\* reached
Counted(o) ==
    o.parse = "ok" /\ ~SavePropertyThrows(o.post) /\ o.push = "ok"

\* the history counters stop at the first value past the claimed limits
SaveCallsCap == MaxCutoff + MaxPageLen
DeliveredCap == MaxCutoff + 1
CountUpTo(x, cap) == IF x < cap THEN x + 1 ELSE x

-----------------------------------------------------------------------------
(* sreality main *)

\* the nested for loops of main, as the list of their iterations:
\* CITIES order, filtered by cities.includes, then propType, then transType
\* (every city of CITIES has a region id, every type pair a category)
SrCities(cs) == SelectSeq(CITIES, LAMBDA c : c \in Range(cs))

SrUnits(cs, pts) ==
    LET fc == SrCities(cs)
        b  == Len(pts)
        c  == Len(transactionTypes)
    IN [k \in 1..(Len(fc) * b * c) |->
            [city      |-> fc[((k - 1) \div (b * c)) + 1],
             propType  |-> pts[(((k - 1) \div c) % b) + 1],
             transType |-> transactionTypes[((k - 1) % c) + 1]]]

Units == SrUnits(cities, propertyTypes)

NoResponse == [n |-> 0, per_page |-> 0, result_size |-> 0]

\* what fetchEstates can resolve to for a page: n estates and the two
\* pagination counters; a finite source holds at most MaxPage pages
Responses(p) ==
    { [n |-> n, per_page |-> pp, result_size |-> rs] :
        n \in (IF p > MaxPage THEN {0} ELSE 0..MaxPageLen),
        pp \in 1..MaxPageLen, rs \in 0..MaxResultSize }

\* The two-page source of the end-to-end scenario (page 1: 60 entries,
\* per_page 60, result_size 90; page 2: 30 entries), in units of 30 entries
ScenarioPages ==
    << [n |-> 2, per_page |-> 2, result_size |-> 3],
       [n |-> 1, per_page |-> 2, result_size |-> 3] >>

\* how many pages of the scenario the unit's fetches have matched so far
\* (0 once one of them differs from it; r is the k-th answer of the source)
ScenarioStep(sc, k, r) ==
    IF k > Len(ScenarioPages) THEN sc
    ELSE IF sc = k - 1 /\ r = ScenarioPages[k] THEN k ELSE 0

NoMorePagesStrict(p, r) == p * r.per_page > r.result_size

\* `page * response.per_page >= response.result_size`
NoMorePages(p, r) == p * r.per_page >= r.result_size

PagePlusTwo(p) == p + 2

\* `page++`
PagePlusPlus(p) == p + 1

\* `while (totalScraped < maxProperties)`: a loop that does not read hasMore
WhileCondNoFlag == totalScraped < maxProperties

\* `while (hasMore && totalScraped < maxProperties)`
WhileCond == hasMore /\ totalScraped < maxProperties

\* `if (totalScraped >= maxProperties) break;`
CutoffReached == totalScraped >= maxProperties

InitListingVars ==
    /\ \E inp \in ScrapingInputs :
         cities = inp.cities /\ propertyTypes = inp.propertyTypes
    /\ maxProperties \in 0..MaxCutoff
    /\ totalScraped = 0
    /\ pc = "unit"
    /\ unit = 1
    /\ page = 1
    /\ hasMore = TRUE
    /\ response = NoResponse
    /\ idx = 1
    /\ fetched = <<>>
    /\ lastFetch = "none"
    /\ scenario = 0
    /\ parsed = 0
    /\ unitScraped = 0
    /\ unitClean = TRUE
    /\ saveCalls = 0
    /\ delivered = 0
    /\ lastEntry = NoEntry

\* next iteration of the unit loops: `let page = 1; let hasMore = true;`
SrStartUnit ==
    /\ UNCHANGED notListing
    /\ pc = "unit"
    /\ unit <= Len(Units)
    /\ page' = 1
    /\ hasMore' = TRUE
    /\ pc' = "while"
    /\ fetched' = <<>>
    /\ lastFetch' = "none"
    /\ scenario' = 0
    /\ parsed' = 0
    /\ unitScraped' = 0
    /\ unitClean' = TRUE
    /\ UNCHANGED <<inputVars, totalScraped, unit, response, idx, runVars>>

\* the unit loops are over: the final console.log and Actor.exit
SrFinish ==
    /\ UNCHANGED notListing
    /\ pc = "unit"
    /\ unit > Len(Units)
    /\ pc' = "done"
    /\ UNCHANGED <<inputVars, totalScraped, unit, page, hasMore, response,
                   idx, unitVars, runVars>>

\* while condition true: `await rateLimiter.wait()`, then the fetch
SrWhileEnter ==
    /\ UNCHANGED notListing
    /\ pc = "while"
    /\ WhileCond
    /\ pc' = "fetch"
    /\ UNCHANGED <<inputVars, totalScraped, unit, page, hasMore, response,
                   idx, unitVars, runVars>>

\* while condition false: the unit is over
SrWhileExit ==
    /\ UNCHANGED notListing
    /\ pc = "while"
    /\ ~WhileCond
    /\ unit' = unit + 1
    /\ pc' = "unit"
    /\ UNCHANGED <<inputVars, totalScraped, page, hasMore, response, idx,
                   unitVars, runVars>>

\* fetchEstates throws: the outer catch sets hasMore = false
SrFetchError ==
    /\ UNCHANGED notListing
    /\ pc = "fetch"
    /\ hasMore' = FALSE
    /\ pc' = "while"
    /\ fetched' = Append(fetched, page)
    /\ lastFetch' = "error"
    /\ scenario' = ScenarioStep(scenario, Len(fetched) + 1, NoResponse)
    /\ UNCHANGED <<inputVars, totalScraped, unit, page, response, idx,
                   parsed, unitScraped, unitClean, runVars>>

\* fetchEstates resolves: an empty page ends the unit (hasMore = false;
\* break), any other page is handed to the entry loop
SrFetch ==
    /\ UNCHANGED notListing
    /\ pc = "fetch"
    /\ \E r \in Responses(page) :
        /\ response' = r
        /\ lastFetch' = IF r.n = 0 THEN "empty" ELSE "page"
        /\ scenario' = ScenarioStep(scenario, Len(fetched) + 1, r)
        /\ IF r.n = 0
           THEN hasMore' = FALSE /\ pc' = "while"
           ELSE hasMore' = hasMore /\ pc' = "entries"
    /\ fetched' = Append(fetched, page)
    /\ idx' = 1
    /\ parsed' = 0
    /\ UNCHANGED <<inputVars, totalScraped, unit, page, unitScraped,
                   unitClean, runVars>>

\* one iteration of `for (const estate of estates)`: parseEstate,
\* saveProperty, Actor.pushData, totalScraped++, inside the inner try/catch;
\* what the inner catch throws lands in the outer catch (hasMore = false)
SrEntry ==
    /\ UNCHANGED notListing
    /\ pc = "entries"
    /\ idx <= response.n
    /\ ~CutoffReached
    /\ idx' = idx + 1
    /\ parsed' = parsed + 1
    /\ \E o \in EntryOutcomes :
        LET called   == o.parse = "ok"
            returned == called /\ ~SavePropertyThrows(o.post)
            counted  == Counted(o)
        IN /\ IF CatchLogThrows(o)
              THEN hasMore' = FALSE /\ pc' = "while"
              ELSE hasMore' = hasMore /\ pc' = pc
           /\ saveCalls' = IF called THEN CountUpTo(saveCalls, SaveCallsCap)
                           ELSE saveCalls
           /\ delivered' = IF called /\ PostAccepted(o.post)
                           THEN CountUpTo(delivered, DeliveredCap)
                           ELSE delivered
           /\ totalScraped' = IF counted THEN totalScraped + 1
                              ELSE totalScraped
           /\ unitScraped' = IF counted THEN unitScraped + 1
                             ELSE unitScraped
           /\ unitClean' = (unitClean /\ counted)
           /\ lastEntry' = o
    /\ UNCHANGED <<inputVars, unit, page, response, fetched, lastFetch,
                   scenario>>

\* the entry loop is over (all entries, or `break` at the cutoff)
SrEntriesEnd ==
    /\ UNCHANGED notListing
    /\ pc = "entries"
    /\ idx > response.n \/ CutoffReached
    /\ pc' = "pageEnd"
    /\ lastEntry' = NoEntry
    /\ UNCHANGED <<inputVars, totalScraped, unit, page, hasMore, response,
                   idx, unitVars, saveCalls, delivered>>

\* the pagination decision: `if (page * per_page >= result_size)`
SrPageEnd ==
    /\ UNCHANGED notListing
    /\ pc = "pageEnd"
    /\ IF NoMorePages(page, response)
       THEN hasMore' = FALSE /\ page' = page
       ELSE hasMore' = hasMore /\ page' = PagePlusPlus(page)
    /\ pc' = "while"
    /\ UNCHANGED <<inputVars, totalScraped, unit, response, idx, unitVars,
                   runVars>>

NextSreality ==
    \/ SrStartUnit
    \/ SrFinish
    \/ SrWhileEnter
    \/ SrWhileExit
    \/ SrFetchError
    \/ SrFetch
    \/ SrEntry
    \/ SrEntriesEnd
    \/ SrPageEnd

-----------------------------------------------------------------------------
(* RateLimiter (single caller; Date.now() never goes back, and a sleep(ms) *)
(* timer is not due before ms have passed)                                 *)

MsPerMinute == 60000

\* budgets whose spacing is a few ms; 60000 / 25000 and 60000 / 13000 are
\* not integers
Budgets == {60000, 25000, 13000}

Max(a, b) == IF a >= b THEN a ELSE b

MinDelayFloor(rpm) == MsPerMinute \div rpm

\* constructor: `Math.ceil(60000 / requestsPerMinute)`
MinDelayMs(rpm) == (MsPerMinute + rpm - 1) \div rpm

WaitTimeMin(now, last, minDelay) ==
    LET elapsed == now - last
    IN IF 0 <= minDelay - elapsed THEN 0 ELSE minDelay - elapsed

\* `Math.max(0, this.minDelayMs - elapsed)` with elapsed = now - last
WaitTime(now, last, minDelay) ==
    LET elapsed == now - last
    IN Max(0, minDelay - elapsed)

\* a RateLimiter nobody uses
IdleRateLimiter ==
    /\ clock = 0
    /\ requestsPerMinute = 0
    /\ minDelayMs = 0
    /\ lastRequestTime = 0
    /\ rlpc = "unused"
    /\ wakeAt = 0
    /\ starts = <<>>
    /\ sleeps = <<>>
    /\ completions = <<>>

\* `new RateLimiter(requestsPerMinute)` at any time of the clock
InitRateLimiter ==
    /\ clock \in 0..MaxClock
    /\ requestsPerMinute \in Budgets
    /\ minDelayMs = MinDelayMs(requestsPerMinute)
    /\ lastRequestTime = 0
    /\ rlpc = "idle"
    /\ wakeAt = 0
    /\ starts = <<>>
    /\ sleeps = <<>>
    /\ completions = <<>>

\* time passes
RLTick ==
    /\ UNCHANGED notRate
    /\ \E t \in (clock + 1)..MaxClock : clock' = t
    /\ UNCHANGED <<requestsPerMinute, minDelayMs, lastRequestTime, rlpc,
                   wakeAt, starts, sleeps, completions>>

\* wait() up to its await: now, elapsed, waitTime, `if (waitTime > 0)`
RLWaitBegin ==
    /\ UNCHANGED notRate
    /\ rlpc = "idle"
    /\ Len(starts) < MaxCalls
    /\ LET waitTime == WaitTime(clock, lastRequestTime, minDelayMs)
       IN /\ sleeps' = Append(sleeps, waitTime)
          /\ IF waitTime > 0
             THEN rlpc' = "sleep" /\ wakeAt' = clock + waitTime
             ELSE rlpc' = "stamp" /\ wakeAt' = wakeAt
    /\ starts' = Append(starts, clock)
    /\ UNCHANGED <<clock, requestsPerMinute, minDelayMs, lastRequestTime,
                   completions>>

\* the timer of `await sleep(waitTime)` fires
RLWake ==
    /\ UNCHANGED notRate
    /\ rlpc = "sleep"
    /\ clock >= wakeAt
    /\ rlpc' = "stamp"
    /\ UNCHANGED <<clock, requestsPerMinute, minDelayMs, lastRequestTime,
                   wakeAt, starts, sleeps, completions>>

\* `this.lastRequestTime = Date.now()`: wait() completes
RLStamp ==
    /\ UNCHANGED notRate
    /\ rlpc = "stamp"
    /\ lastRequestTime' = clock
    /\ completions' = Append(completions, clock)
    /\ rlpc' = "idle"
    /\ UNCHANGED <<clock, requestsPerMinute, minDelayMs, wakeAt, starts,
                   sleeps>>

NextRate ==
    \/ RLTick
    \/ RLWaitBegin
    \/ RLWake
    \/ RLStamp

-----------------------------------------------------------------------------
(* RateLimiter.wait called by several callers on one instance: the calls   *)
(* interleave at the await of sleep(waitTime)                              *)

Callers == 1..MaxCallers

IdleCaller == [pc |-> "idle", wakeAt |-> 0, seen |-> 0]

IdleRc ==
    /\ rcCallers = [c \in Callers |-> IdleCaller]
    /\ rcStarted = 0
    /\ rcCalls = <<>>

\* wait() up to its await: the caller reads lastRequestTime
RcWaitBegin(c) ==
    /\ UNCHANGED notRc
    /\ rcCallers[c].pc = "idle"
    /\ rcStarted < MaxCalls
    /\ LET waitTime == WaitTime(clock, lastRequestTime, minDelayMs)
       IN rcCallers' = [rcCallers EXCEPT ![c] =
              [pc     |-> IF waitTime > 0 THEN "sleep" ELSE "stamp",
               wakeAt |-> clock + waitTime,
               seen   |-> Len(rcCalls)]]
    /\ rcStarted' = rcStarted + 1
    /\ UNCHANGED <<clock, requestsPerMinute, minDelayMs, lastRequestTime,
                   rcCalls>>

\* the timer of the caller's `await sleep(waitTime)` fires
RcWake(c) ==
    /\ UNCHANGED notRc
    /\ rcCallers[c].pc = "sleep"
    /\ clock >= rcCallers[c].wakeAt
    /\ rcCallers' = [rcCallers EXCEPT ![c].pc = "stamp"]
    /\ UNCHANGED <<clock, requestsPerMinute, minDelayMs, lastRequestTime,
                   rcStarted, rcCalls>>

\* `this.lastRequestTime = Date.now()`: the caller's wait() completes
RcStamp(c) ==
    /\ UNCHANGED notRc
    /\ rcCallers[c].pc = "stamp"
    /\ lastRequestTime' = clock
    /\ rcCalls' = Append(rcCalls, [by |-> c, seen |-> rcCallers[c].seen,
                                   end |-> clock])
    /\ rcCallers' = [rcCallers EXCEPT ![c] = IdleCaller]
    /\ UNCHANGED <<clock, requestsPerMinute, minDelayMs, rcStarted>>

NextRateShared ==
    \/ RLTick
    \/ \E c \in Callers : RcWaitBegin(c)
    \/ \E c \in Callers : RcWake(c)
    \/ \E c \in Callers : RcStamp(c)

-----------------------------------------------------------------------------
(* retry *)

\* what an invocation of fn can settle to: a value, or a rejection whose
\* reason is an Error (errA, errB) or null/undefined (nullish)
Values == {"v1", "v2"}
Reasons == {"errA", "errB", "nullish"}
FnOutcomes ==
    { [ok |-> TRUE, val |-> v] : v \in Values }
    \cup { [ok |-> FALSE, val |-> e] : e \in Reasons }

\* 1000 is the default of baseDelay
BaseDelays == {1, 1000}

RECURSIVE Pow2(_)
Pow2(n) == IF n <= 0 THEN 1 ELSE 2 * Pow2(n - 1)

RetryDelayNext(base, a) == base * Pow2(a + 1)

\* `baseDelay * Math.pow(2, attempt)`
RetryDelay(base, a) == base * Pow2(a)

LoopTestAfterFirst(a, limit) == a = 0 \/ a < limit

\* `attempt < maxRetries`, tested before every attempt
LoopTest(a, limit) == a < limit

\* `lastError = error as Error`
CaughtError(old, new) == new

\* `lastError.message` throws a TypeError when the reason is null/undefined
MessageReadThrows(reason) == reason = "nullish"

IdleRetry ==
    /\ fn = <<>>
    /\ maxRetries = 0
    /\ baseDelay = 0
    /\ attempt = 0
    /\ lastError = "undefined"
    /\ rpc = "unused"
    /\ invocations = 0
    /\ sleepLog = <<>>
    /\ settled = [kind |-> "pending", value |-> "none"]

\* the call retry(fn, maxRetries, baseDelay): `let lastError`, attempt = 0
InitRetry ==
    /\ fn \in [1..MaxRetryLimit -> FnOutcomes]
    /\ maxRetries \in (-1)..MaxRetryLimit
    /\ baseDelay \in BaseDelays
    /\ attempt = 0
    /\ lastError = "undefined"
    /\ rpc = "loop"
    /\ invocations = 0
    /\ sleepLog = <<>>
    /\ settled = [kind |-> "pending", value |-> "none"]

\* loop test true: `return await fn()`, fn resolves
RetryCallOk ==
    /\ UNCHANGED notRetry
    /\ rpc = "loop"
    /\ LoopTest(attempt, maxRetries)
    /\ fn[invocations + 1].ok
    /\ invocations' = invocations + 1
    /\ settled' = [kind |-> "returned", value |-> fn[invocations + 1].val]
    /\ rpc' = "done"
    /\ UNCHANGED <<fn, maxRetries, baseDelay, attempt, lastError, sleepLog>>

\* loop test true: fn rejects; the catch block up to its sleep
RetryCallFails ==
    /\ UNCHANGED notRetry
    /\ rpc = "loop"
    /\ LoopTest(attempt, maxRetries)
    /\ ~fn[invocations + 1].ok
    /\ invocations' = invocations + 1
    /\ lastError' = CaughtError(lastError, fn[invocations + 1].val)
    /\ IF MessageReadThrows(fn[invocations + 1].val)
       THEN \* console.warn(... lastError.message) throws out of the catch
            /\ settled' = [kind |-> "rejected", value |-> "TypeError"]
            /\ rpc' = "done"
            /\ UNCHANGED <<attempt, sleepLog>>
       ELSE IF attempt < maxRetries - 1
       THEN /\ sleepLog' = Append(sleepLog,
                              [after |-> attempt,
                               ms |-> RetryDelay(baseDelay, attempt)])
            /\ rpc' = "sleep"
            /\ UNCHANGED <<attempt, settled>>
       ELSE /\ attempt' = attempt + 1
            /\ rpc' = "loop"
            /\ UNCHANGED <<sleepLog, settled>>
    /\ UNCHANGED <<fn, maxRetries, baseDelay>>

\* `await sleep(delay)` is over: attempt++
RetrySleepDone ==
    /\ UNCHANGED notRetry
    /\ rpc = "sleep"
    /\ attempt' = attempt + 1
    /\ rpc' = "loop"
    /\ UNCHANGED <<fn, maxRetries, baseDelay, lastError, invocations,
                   sleepLog, settled>>

\* loop test false: `throw lastError`
RetryThrow ==
    /\ UNCHANGED notRetry
    /\ rpc = "loop"
    /\ ~LoopTest(attempt, maxRetries)
    /\ settled' = [kind |-> "rejected", value |-> lastError]
    /\ rpc' = "done"
    /\ UNCHANGED <<fn, maxRetries, baseDelay, attempt, lastError,
                   invocations, sleepLog>>

NextRetry ==
    \/ RetryCallOk
    \/ RetryCallFails
    \/ RetrySleepDone
    \/ RetryThrow

-----------------------------------------------------------------------------
(* cuzk enrichment main *)

InputKinds == {"propertyIds", "coordinates", "none"}

\* fetchFromRuian: one GET; a first result gives a CadastralData (with or
\* without a parcel number in its attributes), anything else gives null
RuianOutcomes == {"data", "dataNoNumber", "noResult", "networkError"}

\* fetchCadastralData: one GET and parseWfsResponse
WfsOutcomes == {"feature", "featureNoNumber", "noFeature", "badStatus",
                "networkError"}

\* the lookup functions catch everything and answer null; the data they
\* return carries a parcel number or not
LookupResult(o) ==
    CASE o \in {"data", "feature"} -> "withNumber"
      [] o \in {"dataNoNumber", "featureNoNumber"} -> "withoutNumber"
      [] OTHER -> "null"

NeedsFallbackAlways(data) == TRUE

\* `if (!cadastralData)` after the RUIAN lookup
NeedsFallback(data) == data = "null"

FailedInCatchKept(f) == f

\* `catch (error) { failed++; ... }` around the work on one property
FailedInCatch(f) == f + 1

\* updateCadastralData has the shape of saveProperty
UpdateThrows(patch) == patch \in {"networkError", "non2xxBodyError"}

NoLookups == [ruian |-> 0, wfs |-> 0, patch |-> 0]

IdleCuzk ==
    /\ input = [kind |-> "none", n |-> 0]
    /\ properties = <<>>
    /\ cpc = "unused"
    /\ prop = 0
    /\ cadastralData = "null"
    /\ enriched = 0
    /\ failed = 0
    /\ lookups = NoLookups
    /\ netFailure = FALSE
    /\ verdict = "none"
    /\ patched = "none"

InitCuzk ==
    /\ input \in [kind : InputKinds, n : 0..MaxProps]
    /\ properties = <<>>
    /\ cpc = "select"
    /\ prop = 0
    /\ cadastralData = "null"
    /\ enriched = 0
    /\ failed = 0
    /\ lookups = NoLookups
    /\ netFailure = FALSE
    /\ verdict = "none"
    /\ patched = "none"

\* the work list: [] for propertyIds, the coordinates with ids 0..n-1, or
\* what getPropertiesWithoutCadastral answers ([] when it fails)
CzSelect ==
    /\ UNCHANGED notCuzk
    /\ cpc = "select"
    /\ \E list \in { [i \in 1..k |-> i - 1] : k \in 0..MaxProps } :
        /\ CASE input.kind = "propertyIds" /\ input.n > 0 -> list = <<>>
             [] input.kind = "coordinates" /\ input.n > 0 ->
                    Len(list) = input.n
             [] OTHER -> TRUE
        /\ properties' = list
    /\ cpc' = "loop"
    /\ UNCHANGED <<input, prop, cadastralData, enriched, failed, lookups,
                   netFailure, verdict, patched>>

\* next property: `await rateLimiter.wait()`
CzNextProp ==
    /\ UNCHANGED notCuzk
    /\ cpc = "loop"
    /\ prop < Len(properties)
    /\ prop' = prop + 1
    /\ cpc' = "ruian"
    /\ cadastralData' = "null"
    /\ lookups' = NoLookups
    /\ netFailure' = FALSE
    /\ verdict' = "none"
    /\ patched' = "none"
    /\ UNCHANGED <<input, properties, enriched, failed>>

\* the list is done: the final counters are logged
CzFinish ==
    /\ UNCHANGED notCuzk
    /\ cpc = "loop"
    /\ prop >= Len(properties)
    /\ cpc' = "done"
    /\ UNCHANGED <<input, properties, prop, cadastralData, enriched, failed,
                   lookups, netFailure, verdict, patched>>

\* `cadastralData = await fetchFromRuian(...)`
CzRuian ==
    /\ UNCHANGED notCuzk
    /\ cpc = "ruian"
    /\ \E o \in RuianOutcomes :
        /\ cadastralData' = LookupResult(o)
        /\ netFailure' = (netFailure \/ o = "networkError")
        /\ cpc' = IF NeedsFallback(LookupResult(o)) THEN "wfs" ELSE "patch"
    /\ lookups' = [lookups EXCEPT !.ruian = @ + 1]
    /\ UNCHANGED <<input, properties, prop, enriched, failed, verdict,
                   patched>>

\* `if (!cadastralData) cadastralData = await fetchCadastralData(...)`;
\* still null: failed++
CzWfs ==
    /\ UNCHANGED notCuzk
    /\ cpc = "wfs"
    /\ \E o \in WfsOutcomes :
        /\ cadastralData' = LookupResult(o)
        /\ netFailure' = (netFailure \/ o = "networkError")
        /\ IF LookupResult(o) = "null"
           THEN failed' = failed + 1 /\ verdict' = "failed" /\ cpc' = "loop"
           ELSE failed' = failed /\ verdict' = verdict /\ cpc' = "patch"
    /\ lookups' = [lookups EXCEPT !.wfs = @ + 1]
    /\ UNCHANGED <<input, properties, prop, enriched, patched>>

\* `await updateCadastralData(...)`, `await Actor.pushData(...)`,
\* enriched++; the catch counts a throw of either as failed
CzUpdate ==
    /\ UNCHANGED notCuzk
    /\ cpc = "patch"
    /\ \E patch \in PostOutcomes, push \in PushOutcomes :
        /\ patched' = patch
        /\ IF ~UpdateThrows(patch) /\ push = "ok"
           THEN enriched' = enriched + 1 /\ failed' = failed
                /\ verdict' = "enriched"
           ELSE enriched' = enriched /\ failed' = FailedInCatch(failed)
                /\ verdict' = "failed"
    /\ lookups' = [lookups EXCEPT !.patch = @ + 1]
    /\ cpc' = "loop"
    /\ UNCHANGED <<input, properties, prop, cadastralData, netFailure>>

NextCuzk ==
    \/ CzSelect
    \/ CzNextProp
    \/ CzFinish
    \/ CzRuian
    \/ CzWfs
    \/ CzUpdate

-----------------------------------------------------------------------------
(* saveProperties *)

TallyDropsFailures(c, threw) ==
    IF threw THEN c ELSE [c EXCEPT !.saved = @ + 1]

\* `try { await saveProperty(property); saved++; } catch { failed++; }`
Tally(c, threw) ==
    IF threw THEN [c EXCEPT !.failed = @ + 1]
    ELSE [c EXCEPT !.saved = @ + 1]

IdleSp ==
    /\ spItems = <<>>
    /\ spIdx = 1
    /\ spSaved = 0
    /\ spFailed = 0
    /\ sppc = "unused"
    /\ spAttempts = <<>>

InitSp ==
    /\ spItems \in UNION { [1..n -> PostOutcomes] : n \in 0..MaxBatch }
    /\ spIdx = 1
    /\ spSaved = 0
    /\ spFailed = 0
    /\ sppc = "loop"
    /\ spAttempts = <<>>

\* one iteration of the loop
SpSave ==
    /\ UNCHANGED notSp
    /\ sppc = "loop"
    /\ spIdx <= Len(spItems)
    /\ LET c == Tally([saved |-> spSaved, failed |-> spFailed],
                      SavePropertyThrows(spItems[spIdx]))
       IN spSaved' = c.saved /\ spFailed' = c.failed
    /\ spAttempts' = Append(spAttempts, spIdx)
    /\ spIdx' = spIdx + 1
    /\ UNCHANGED <<spItems, sppc>>

\* `return { saved, failed };`
SpReturn ==
    /\ UNCHANGED notSp
    /\ sppc = "loop"
    /\ spIdx > Len(spItems)
    /\ sppc' = "returned"
    /\ UNCHANGED <<spItems, spIdx, spSaved, spFailed, spAttempts>>

NextSp ==
    \/ SpSave
    \/ SpReturn

-----------------------------------------------------------------------------
(* The identity key of a record: parseEstate, parseListingFromNextData and *)
(* the record literal of the DOM fallback.  Strings are sequences of       *)
(* characters.                                                             *)

SOURCES == [sreality |-> "sreality", bezrealitky |-> "bezrealitky"]

Runs == {1, 2}

Strings(alphabet, lo, hi) == UNION { [1..n -> alphabet] : n \in lo..hi }

Undefined == [type |-> "undefined", v |-> <<>>]
StringValue(str) == [type |-> "string", v |-> str]
NumberValue(n) == [type |-> "number", v |-> <<n>>]

DigitChars == <<"0", "1", "2", "3", "4", "5", "6", "7", "8", "9">>

\* Number.prototype.toString of a natural number
RECURSIVE NumberToString(_)
NumberToString(n) ==
    IF n < 10 THEN <<DigitChars[n + 1]>>
    ELSE NumberToString(n \div 10) \o <<DigitChars[(n % 10) + 1]>>

\* `link.split('/').pop()`: what follows the last '/'
RECURSIVE SplitPop(_)
SplitPop(str) ==
    IF str = <<>> \/ str[Len(str)] = "/" THEN <<>>
    ELSE SplitPop(SubSeq(str, 1, Len(str) - 1)) \o <<str[Len(str)]>>

\* `br-${Date.now()}-${totalScraped}`
FabricatedId(now, total) ==
    <<"b", "r", "-">> \o NumberToString(now) \o <<"-">>
        \o NumberToString(total)

\* `link.split('/').pop() || `br-${Date.now()}-${totalScraped}``
DomExternalId(link, now, total) ==
    IF SplitPop(link) # <<>> THEN StringValue(SplitPop(link))
    ELSE StringValue(FabricatedId(now, total))

\* the raw items: an estate of the JSON API (hash_id a number, or missing),
\* a listing of the embedded state (id a string, possibly empty, or
\* missing) and a card of the page (title found or not, href)
RawEntries ==
    { [kind |-> "estate", id |-> v, title |-> TRUE] :
        v \in {Undefined} \cup { NumberValue(n) : n \in 0..MaxHashId } }
    \cup { [kind |-> "listing", id |-> v, title |-> TRUE] :
        v \in {Undefined}
              \cup { StringValue(x) : x \in Strings({"a", "7"}, 0, MaxIdLen) } }
    \cup { [kind |-> "card", id |-> StringValue(x), title |-> t] :
        x \in Strings({"/", "a"}, 0, MaxLinkLen), t \in BOOLEAN }

NoRecord == [status |-> "none", external_id |-> Undefined, source |-> ""]

\* what a run makes of the item: parseEstate throws on a missing hash_id
\* (`estate.hash_id.toString()`), parseListingFromNextData copies data.id,
\* the DOM fallback skips a card without title or link
Normalize(e, now, total) ==
    CASE e.kind = "estate" ->
             IF e.id.type = "undefined"
             THEN [NoRecord EXCEPT !.status = "threw"]
             ELSE [status |-> "built",
                   external_id |-> StringValue(NumberToString(e.id.v[1])),
                   source |-> SOURCES.sreality]
      [] e.kind = "listing" ->
             [status |-> "built", external_id |-> e.id,
              source |-> SOURCES.bezrealitky]
      [] OTHER ->
             IF ~e.title \/ e.id.v = <<>>
             THEN [NoRecord EXCEPT !.status = "skipped"]
             ELSE [status |-> "built",
                   external_id |-> DomExternalId(e.id.v, now, total),
                   source |-> SOURCES.bezrealitky]

IdleId ==
    /\ idEntry = [kind |-> "none", id |-> Undefined, title |-> FALSE]
    /\ idNow = [r \in Runs |-> 0]
    /\ idTotal = [r \in Runs |-> 0]
    /\ idRecord = [r \in Runs |-> NoRecord]

InitId ==
    /\ idEntry \in RawEntries
    /\ idNow \in [Runs -> 0..MaxNow]
    /\ idTotal \in [Runs -> 0..1]
    /\ idRecord = [r \in Runs |-> NoRecord]

\* run r reaches the item and normalizes it
IdNormalize(r) ==
    /\ UNCHANGED notId
    /\ idRecord[r].status = "none"
    /\ idRecord' = [idRecord EXCEPT
                      ![r] = Normalize(idEntry, idNow[r], idTotal[r])]
    /\ UNCHANGED <<idEntry, idNow, idTotal>>

\* `await saveProperty(propertyData)` is called with the record
IdSave(r) ==
    /\ UNCHANGED notId
    /\ idRecord[r].status = "built"
    /\ idRecord' = [idRecord EXCEPT ![r].status = "saved"]
    /\ UNCHANGED <<idEntry, idNow, idTotal>>

NextId ==
    \/ \E r \in Runs : IdNormalize(r)
    \/ \E r \in Runs : IdSave(r)

-----------------------------------------------------------------------------
(* The parsing helpers of shared/src/helpers and the rooms fields of the   *)
(* records the builders return.  Texts are sequences of characters; "c^",  *)
(* "C^" and "n^" stand for the letters c, C and n with a caron.            *)

Pending == [type |-> "pending", v |-> <<>>]
NaN == [type |-> "NaN", v |-> <<>>]

\* the texts made of at most n of the given pieces
RECURSIVE Texts(_, _)
Texts(pieces, n) ==
    IF n = 0 THEN {<<>>}
    ELSE LET shorter == Texts(pieces, n - 1)
         IN  shorter \cup { t \o p : t \in shorter, p \in pieces }

\* `!x` of a string or undefined
Falsy(x) == x.type = "undefined" \/ x.v = <<>>

\* \d
IsDigit(c) == c \in Range(DigitChars)

DigitValue(c) == CHOOSE d \in 0..9 : DigitChars[d + 1] = c

\* \s
IsSpace(c) == c = " "

\* ^(\d+): the longest run of digits the text starts with
RECURSIVE LeadingDigits(_)
LeadingDigits(str) ==
    IF str = <<>> \/ ~IsDigit(Head(str)) THEN <<>>
    ELSE <<Head(str)>> \o LeadingDigits(Tail(str))

\* parseFloat / parseInt(_, 10) of a run of digits
RECURSIVE DigitsToNumber(_)
DigitsToNumber(ds) ==
    IF ds = <<>> THEN 0
    ELSE DigitsToNumber(SubSeq(ds, 1, Len(ds) - 1)) * 10
             + DigitValue(ds[Len(ds)])

parseRoomsCountFirstDigit(rooms) ==
    IF Falsy(rooms) THEN Undefined
    ELSE IF LeadingDigits(rooms.v) # <<>>
         THEN NumberValue(DigitValue(Head(rooms.v)))
         ELSE Undefined

\* parseRoomsCount
parseRoomsCount(rooms) ==
    IF Falsy(rooms) THEN Undefined
    ELSE IF LeadingDigits(rooms.v) # <<>>
         THEN NumberValue(DigitsToNumber(LeadingDigits(rooms.v)))
         ELSE Undefined

\* k under the i flag
IsK(c) == c \in {"k", "K"}

\* /(\d\+(?:kk|1))/i tried at position i: the matched text, <<>> for none
RoomsAt(name, i) ==
    IF ~(i + 1 <= Len(name) /\ IsDigit(name[i]) /\ name[i + 1] = "+")
    THEN <<>>
    ELSE IF i + 3 <= Len(name) /\ IsK(name[i + 2]) /\ IsK(name[i + 3])
         THEN SubSeq(name, i, i + 3)
         ELSE IF i + 2 <= Len(name) /\ name[i + 2] = "1"
              THEN SubSeq(name, i, i + 2)
              ELSE <<>>

\* `nameMatch ? nameMatch[1] : undefined`: the leftmost match
NameRooms(name) ==
    LET hits == { i \in 1..Len(name) : RoomsAt(name, i) # <<>> }
    IN  IF hits = {} THEN Undefined
        ELSE StringValue(RoomsAt(name,
                 CHOOSE i \in hits : \A j \in hits : i <= j))

\* parseEstate: `rooms: rooms`,
\* `rooms_count: rooms ? parseRoomsCount(rooms) : undefined`
EstateRooms(name) ==
    [rooms |-> NameRooms(name.v),
     rooms_count |-> IF Falsy(NameRooms(name.v)) THEN Undefined
                     ELSE parseRoomsCount(NameRooms(name.v))]

\* parseListingFromNextData: `rooms: data.disposition`, `rooms_count:
\* data.disposition ? parseRoomsCount(data.disposition) : undefined`
ListingRooms(disposition) ==
    [rooms |-> disposition,
     rooms_count |-> IF Falsy(disposition) THEN Undefined
                     ELSE parseRoomsCount(disposition)]

\* room-layout texts and estate names
RoomsTexts ==
    { StringValue(t) :
        t \in Strings({"0", "1", "2", "+", "k"}, 0, MaxRoomsLen) }

IdleParse ==
    /\ parseFn = "none"
    /\ parseArg = Undefined
    /\ parseRet = Pending
    /\ parseRooms = Undefined

InitRooms ==
    /\ parseFn \in {"parseRoomsCount", "parseEstate",
                    "parseListingFromNextData"}
    /\ parseArg \in RoomsTexts
           \cup (IF parseFn = "parseListingFromNextData"
                 THEN {Undefined} ELSE {})
    /\ parseRet = Pending
    /\ parseRooms = Undefined

CallParseRoomsCount ==
    /\ UNCHANGED notParse
    /\ parseFn = "parseRoomsCount"
    /\ parseRet = Pending
    /\ parseRet' = parseRoomsCount(parseArg)
    /\ UNCHANGED <<parseFn, parseArg, parseRooms>>

\* parseEstate called with an estate of the given name
CallParseEstate ==
    /\ UNCHANGED notParse
    /\ parseFn = "parseEstate"
    /\ parseRet = Pending
    /\ parseRet' = EstateRooms(parseArg).rooms_count
    /\ parseRooms' = EstateRooms(parseArg).rooms
    /\ UNCHANGED <<parseFn, parseArg>>

\* parseListingFromNextData called with a listing of the given disposition
CallParseListing ==
    /\ UNCHANGED notParse
    /\ parseFn = "parseListingFromNextData"
    /\ parseRet = Pending
    /\ parseRet' = ListingRooms(parseArg).rooms_count
    /\ parseRooms' = ListingRooms(parseArg).rooms
    /\ UNCHANGED <<parseFn, parseArg>>

NextRooms ==
    \/ CallParseRoomsCount
    \/ CallParseEstate
    \/ CallParseListing

-----------------------------------------------------------------------------
\* `.replace(/\s/g, '')`
RECURSIVE StripSpaces(_)
StripSpaces(str) ==
    IF str = <<>> THEN <<>>
    ELSE IF IsSpace(Head(str)) THEN StripSpaces(Tail(str))
         ELSE <<Head(str)>> \o StripSpaces(Tail(str))

\* /Kc^/gi, /CZK/gi and /,-/g: the characters each position accepts
KcPattern == << {"K", "k"}, {"c^", "C^"} >>
CzkPattern == << {"C", "c"}, {"Z", "z"}, {"K", "k"} >>
CommaDashPattern == << {","}, {"-"} >>

MatchesAt(str, pat) ==
    /\ Len(str) >= Len(pat)
    /\ \A i \in 1..Len(pat) : str[i] \in pat[i]

\* `.replace(pattern, '')` with the g flag: left to right, no overlap
RECURSIVE RemoveAll(_, _)
RemoveAll(str, pat) ==
    IF str = <<>> THEN <<>>
    ELSE IF MatchesAt(str, pat)
         THEN RemoveAll(SubSeq(str, Len(pat) + 1, Len(str)), pat)
         ELSE <<Head(str)>> \o RemoveAll(Tail(str), pat)

\* `const cleaned = priceStr.replace(...).replace(...)...`
Cleaned(str) ==
    RemoveAll(RemoveAll(RemoveAll(StripSpaces(str), KcPattern), CzkPattern),
              CommaDashPattern)

\* parseInt(str, 10): an optional sign and the digits that follow it; what
\* comes after the digits is ignored; NaN without a digit
ParseInt(str) ==
    LET signed == str # <<>> /\ Head(str) \in {"+", "-"}
        digits == LeadingDigits(IF signed THEN Tail(str) ELSE str)
    IN  IF digits = <<>> THEN NaN
        ELSE NumberValue(IF signed /\ Head(str) = "-"
                         THEN 0 - DigitsToNumber(digits)
                         ELSE DigitsToNumber(digits))

\* parsePrice
parsePrice(priceStr) ==
    IF Falsy(priceStr) THEN Undefined
    ELSE IF ParseInt(Cleaned(priceStr.v)) = NaN THEN Undefined
         ELSE ParseInt(Cleaned(priceStr.v))

\* price texts: digit groups, blanks, the currency marker, a dot, ",-"
PricePieces ==
    { <<"5">>, <<"0", "0", "0">>, <<" ">>, <<"K", "c^">>, <<".">>,
      <<",", "-">> }

\* the texts of at most nine digits (prices below 10^9)
PriceTexts ==
    { StringValue(t) :
        t \in { u \in Texts(PricePieces, MaxPricePieces) :
                  Len(SelectSeq(u, IsDigit)) < 10 } }

InitPrice ==
    /\ parseFn = "parsePrice"
    /\ parseArg \in PriceTexts
    /\ parseRet = Pending
    /\ parseRooms = Undefined

CallParsePrice ==
    /\ UNCHANGED notParse
    /\ parseFn = "parsePrice"
    /\ parseRet = Pending
    /\ parseRet' = parsePrice(parseArg)
    /\ UNCHANGED <<parseFn, parseArg, parseRooms>>

NextPrice == CallParsePrice

-----------------------------------------------------------------------------
\* `const cities = ['Praha', 'Brno', 'Ostrava', 'Plzen^']`
KnownCities ==
    << <<"P", "r", "a", "h", "a">>,
       <<"B", "r", "n", "o">>,
       <<"O", "s", "t", "r", "a", "v", "a">>,
       <<"P", "l", "z", "e", "n^">> >>

\* where pat occurs in str
Occurrences(str, pat) ==
    { i \in 1..(Len(str) - Len(pat) + 1) :
        SubSeq(str, i, i + Len(pat) - 1) = pat }

\* String.prototype.includes
Includes(str, pat) == Occurrences(str, pat) # {}

\* String.prototype.split with a non-empty separator
RECURSIVE SplitOn(_, _)
SplitOn(str, sep) ==
    IF Occurrences(str, sep) = {} THEN <<str>>
    ELSE LET i == CHOOSE k \in Occurrences(str, sep) :
                      \A j \in Occurrences(str, sep) : k <= j
         IN  <<SubSeq(str, 1, i - 1)>>
                 \o SplitOn(SubSeq(str, i + Len(sep), Len(str)), sep)

\* String.prototype.trim
RECURSIVE Trim(_)
Trim(str) ==
    IF str = <<>> THEN <<>>
    ELSE IF IsSpace(Head(str)) THEN Trim(Tail(str))
         ELSE IF IsSpace(str[Len(str)])
              THEN Trim(SubSeq(str, 1, Len(str) - 1))
              ELSE str

\* extractCity: the first known city the text includes; otherwise the
\* first word of the last comma-separated part (split always returns at
\* least one part)
extractCity(locality) ==
    IF Falsy(locality) THEN Undefined
    ELSE LET known == { c \in 1..Len(KnownCities) :
                          Includes(locality.v, KnownCities[c]) }
             parts == SplitOn(locality.v, <<",">>)
         IN  IF known # {}
             THEN StringValue(
                      KnownCities[CHOOSE c \in known :
                                      \A d \in known : c <= d])
             ELSE StringValue(
                      SplitOn(Trim(parts[Len(parts)]), <<" ">>)[1])

\* extractDistrict: the first comma-separated part when there are two or
\* more, else the second part of a ' - ' split, else undefined
extractDistrict(locality) ==
    IF Falsy(locality) THEN Undefined
    ELSE LET parts == SplitOn(locality.v, <<",">>)
             dashParts == SplitOn(locality.v, <<" ", "-", " ">>)
         IN  IF Len(parts) >= 2 THEN StringValue(Trim(parts[1]))
             ELSE IF Len(dashParts) >= 2
                  THEN StringValue(Trim(dashParts[2]))
                  ELSE Undefined

\* locality texts: two known cities, another word, comma, blank, ' - '
LocalityPieces ==
    { KnownCities[1], KnownCities[2], <<"w">>, <<",">>, <<" ">>,
      <<" ", "-", " ">> }

LocalityTexts ==
    {Undefined}
        \cup { StringValue(t) :
                 t \in Texts(LocalityPieces, MaxLocalityPieces) }

InitLocality ==
    /\ parseFn \in {"extractCity", "extractDistrict"}
    /\ parseArg \in LocalityTexts
    /\ parseRet = Pending
    /\ parseRooms = Undefined

CallExtractCity ==
    /\ UNCHANGED notParse
    /\ parseFn = "extractCity"
    /\ parseRet = Pending
    /\ parseRet' = extractCity(parseArg)
    /\ UNCHANGED <<parseFn, parseArg, parseRooms>>

CallExtractDistrict ==
    /\ UNCHANGED notParse
    /\ parseFn = "extractDistrict"
    /\ parseRet = Pending
    /\ parseRet' = extractDistrict(parseArg)
    /\ UNCHANGED <<parseFn, parseArg, parseRooms>>

NextLocality ==
    \/ CallExtractCity
    \/ CallExtractDistrict

-----------------------------------------------------------------------------
(* The URL of a bezrealitky work unit: buildSearchUrl and the types the   *)
(* handler reads back from request.url.                                    *)

\* API_ENDPOINTS.bezrealitky
BASE_URL ==
    <<"h", "t", "t", "p", "s", ":", "/", "/", "w", "w", "w", ".",
      "b", "e", "z", "r", "e", "a", "l", "i", "t", "k", "y", ".", "c", "z">>

\* String.prototype.toLowerCase, on the letters of the city names
LowerChar(c) == IF c = "B" THEN "b" ELSE c

\* `city.toLowerCase().replace(/\s+/g, '-')`: every run of whitespace
\* becomes one '-'
RECURSIVE CitySlug(_)
CitySlug(city) ==
    IF city = <<>> THEN <<>>
    ELSE IF IsSpace(Head(city))
         THEN IF Len(city) > 1 /\ IsSpace(city[2]) THEN CitySlug(Tail(city))
              ELSE <<"-">> \o CitySlug(Tail(city))
         ELSE <<LowerChar(Head(city))>> \o CitySlug(Tail(city))

\* `propertyType === 'apartment' ? 'byt' : 'dum'`
TypeSlug(propertyType) ==
    IF propertyType = "apartment" THEN <<"b", "y", "t">>
    ELSE <<"d", "u", "m">>

\* `transactionType === 'sale' ? 'prodej' : 'pronajem'`
TransSlug(transactionType) ==
    IF transactionType = "sale" THEN <<"p", "r", "o", "d", "e", "j">>
    ELSE <<"p", "r", "o", "n", "a", "j", "e", "m">>

\* buildSearchUrl(city, propertyType, transactionType), page = 1
buildSearchUrl(city, propertyType, transactionType) ==
    BASE_URL \o <<"/">> \o TransSlug(transactionType) \o <<"/">>
        \o TypeSlug(propertyType) \o <<"/">> \o CitySlug(city)
        \o <<"?", "p", "a", "g", "e", "=", "1">>

\* `url.includes('/byt') ? 'apartment' : 'house'` and
\* `url.includes('/prodej') ? 'sale' : 'rent'`
TypesFromUrl(url) ==
    [propertyType |->
         IF Includes(url, <<"/", "b", "y", "t">>) THEN "apartment"
         ELSE "house",
     transactionType |->
         IF Includes(url, <<"/", "p", "r", "o", "d", "e", "j">>) THEN "sale"
         ELSE "rent"]

NoTypes == [propertyType |-> "none", transactionType |-> "none"]

\* city names: letters, blanks and a word
CityPieces ==
    { <<"B">>, <<"y">>, <<"t">>, <<"a">>, <<" ">>,
      <<"p", "r", "o", "d", "e", "j">> }

IdleUrl ==
    /\ urlUnit = [city |-> <<>>, propertyType |-> "none",
                  transactionType |-> "none"]
    /\ urlRequest = <<>>
    /\ urlTypes = NoTypes

\* one unit of the loops that build startUrls
InitUrl ==
    /\ urlUnit \in [city : Texts(CityPieces, MaxCityPieces),
                    propertyType : {"apartment", "house"},
                    transactionType : {"sale", "rent"}]
    /\ urlRequest = <<>>
    /\ urlTypes = NoTypes

\* `startUrls.push(buildSearchUrl(city, propType, transType))`
UrlBuild ==
    /\ UNCHANGED notUrl
    /\ urlRequest = <<>>
    /\ urlRequest' = buildSearchUrl(urlUnit.city, urlUnit.propertyType,
                                    urlUnit.transactionType)
    /\ UNCHANGED <<urlUnit, urlTypes>>

\* the handler is called with the request and derives the types
UrlDerive ==
    /\ UNCHANGED notUrl
    /\ urlRequest # <<>>
    /\ urlTypes = NoTypes
    /\ urlTypes' = TypesFromUrl(urlRequest)
    /\ UNCHANGED <<urlUnit, urlRequest>>

NextUrl ==
    \/ UrlBuild
    \/ UrlDerive

-----------------------------------------------------------------------------
(* Chatbot (frontend/src/components/Chatbot.tsx): the window is open and *)
(* not minimized.  A message is modelled by what it is: the greeting, a    *)
(* user message, a bot reply, the error reply, the 'cleared' message.      *)

IdleCb ==
    /\ cbMessages = <<>>
    /\ cbInput = FALSE
    /\ cbIsLoading = FALSE
    /\ cbPending = FALSE
    /\ cbSinceClear = "unused"

\* the useState initial values
InitCb ==
    /\ cbMessages = <<"greeting">>
    /\ cbInput = FALSE
    /\ cbIsLoading = FALSE
    /\ cbPending = FALSE
    /\ cbSinceClear = "none"

\* the user types (or picks a suggestion): setInput
CbType ==
    /\ UNCHANGED notCb
    /\ ~cbInput
    /\ cbInput' = TRUE
    /\ UNCHANGED <<cbMessages, cbIsLoading, cbPending, cbSinceClear>>

\* handleSend up to its `await fetch(...)`
CbSend ==
    /\ UNCHANGED notCb
    /\ cbInput /\ ~cbIsLoading
    /\ Len(cbMessages) < MaxMessages
    /\ cbMessages' = Append(cbMessages, "user")
    /\ cbInput' = FALSE
    /\ cbIsLoading' = TRUE
    /\ cbPending' = TRUE
    /\ cbSinceClear' = IF cbSinceClear = "cleared" THEN "sent"
                       ELSE cbSinceClear

\* the rest of handleSend: the reply (or the catch) and the finally;
\* `setMessages((prev) => [...prev, botMessage])` runs its updater on the
\* messages of the moment the reply arrives
CbReply ==
    /\ UNCHANGED notCb
    /\ cbPending
    /\ \E m \in {"bot", "error"} :
         cbMessages' = Append(cbMessages, m)
    /\ cbIsLoading' = FALSE
    /\ cbPending' = FALSE
    /\ UNCHANGED <<cbInput, cbSinceClear>>

\* the clear button (rendered when messages.length > 1): clearConversation
CbClear ==
    /\ UNCHANGED notCb
    /\ Len(cbMessages) > 1
    /\ cbMessages' = <<"cleared">>
    /\ cbSinceClear' = "cleared"
    /\ UNCHANGED <<cbInput, cbIsLoading, cbPending>>

NextCb ==
    \/ CbType
    \/ CbSend
    \/ CbReply
    \/ CbClear

-----------------------------------------------------------------------------
(* PropertiesPage (frontend/src/app/properties/page.tsx).  The filters are *)
(* one value; a response is identified by the request it answers.          *)

Filters == {"all", "house"}

NoRequestKey == [page |-> 0, filter |-> "none"]

RequestKey(p, f) == [page |-> p, filter |-> f]

\* data.total of the response to a request, in pages of pageSize
TotalOf(f) == MaxUiPage

IdlePp ==
    /\ ppPage = 0
    /\ ppFilter = "none"
    /\ ppProperties = NoRequestKey
    /\ ppTotal = 0
    /\ ppLoading = FALSE
    /\ ppError = "null"
    /\ ppInFlight = {}
    /\ ppIssued = 0

\* the useState initial values, before the first effect
InitPp ==
    /\ ppPage = 1
    /\ ppFilter = "all"
    /\ ppProperties = NoRequestKey
    /\ ppTotal = 0
    /\ ppLoading = TRUE
    /\ ppError = "null"
    /\ ppInFlight = {}
    /\ ppIssued = 0

\* fetchProperties up to its `await fetch(...)`, for each of the given
\* (page, filter) pairs in turn
Requested(keys) ==
    ppInFlight \cup { [key |-> keys[i], id |-> ppIssued + i] :
                        i \in 1..Len(keys) }

\* the effects after the first render
PpMount ==
    /\ UNCHANGED notPp
    /\ ppIssued = 0
    /\ ppInFlight' = Requested(<<RequestKey(ppPage, ppFilter)>>)
    /\ ppIssued' = 1
    /\ ppLoading' = TRUE
    /\ ppError' = "null"
    /\ UNCHANGED <<ppPage, ppFilter, ppProperties, ppTotal>>

\* a filter changes: the fetch effect runs with the new filter, the reset
\* effect sets page 1, and when the page was not 1 the fetch effect runs
\* again with page 1
PpSetFilter ==
    /\ UNCHANGED notPp
    /\ ppIssued >= 1
    /\ ppIssued + 2 <= MaxRequests
    /\ \E f \in Filters \ {ppFilter} :
        /\ ppFilter' = f
        /\ ppPage' = 1
        /\ IF ppPage = 1
           THEN /\ ppInFlight' = Requested(<<RequestKey(1, f)>>)
                /\ ppIssued' = ppIssued + 1
           ELSE /\ ppInFlight' = Requested(<<RequestKey(ppPage, f),
                                            RequestKey(1, f)>>)
                /\ ppIssued' = ppIssued + 2
    /\ ppLoading' = TRUE
    /\ ppError' = "null"
    /\ UNCHANGED <<ppProperties, ppTotal>>

\* Previous (disabled on page 1) or Next (disabled when
\* page * pageSize >= total): the fetch effect runs with the new page
PpSetPage ==
    /\ UNCHANGED notPp
    /\ ppIssued >= 1
    /\ ppIssued + 1 <= MaxRequests
    /\ \E p \in {ppPage - 1, ppPage + 1} :
        /\ p >= 1
        /\ p > ppPage => ppPage < ppTotal
        /\ ppPage' = p
        /\ ppInFlight' = Requested(<<RequestKey(p, ppFilter)>>)
    /\ ppIssued' = ppIssued + 1
    /\ ppLoading' = TRUE
    /\ ppError' = "null"
    /\ UNCHANGED <<ppFilter, ppProperties, ppTotal>>

\* a response arrives: setProperties and setTotal with its data, whatever
\* request it answers, and the finally
PpResponse ==
    /\ UNCHANGED notPp
    /\ \E r \in ppInFlight :
        /\ ppInFlight' = ppInFlight \ {r}
        /\ ppProperties' = r.key
        /\ ppTotal' = TotalOf(r.key.filter)
    /\ ppLoading' = FALSE
    /\ UNCHANGED <<ppPage, ppFilter, ppError, ppIssued>>

\* a request fails (network, or a status that is not ok): setError and the
\* finally
PpFailure ==
    /\ UNCHANGED notPp
    /\ \E r \in ppInFlight : ppInFlight' = ppInFlight \ {r}
    /\ ppError' = "message"
    /\ ppLoading' = FALSE
    /\ UNCHANGED <<ppPage, ppFilter, ppProperties, ppTotal, ppIssued>>

NextPp ==
    \/ PpMount
    \/ PpSetFilter
    \/ PpSetPage
    \/ PpResponse
    \/ PpFailure

IdleUi == IdleCb /\ IdlePp

-----------------------------------------------------------------------------
(* bezrealitky main: crawler.run(startUrls) with the router's default      *)
(* handler.  The crawler takes a request from its queue when a slot is     *)
(* free and its concurrency limit allows it, loads the page, and then      *)
(* calls the handler with the loaded page.                                 *)

Slots == 1..MaxSlots

\* `maxConcurrency: 1`
MaxConcurrency == 1

\* the nested for loops that build startUrls: one request per
\* (city, propType, transType), in that order, each for page 1
BzStartUrls(cs, pts) ==
    [k \in 1..(Len(cs) * Len(pts) * Len(transactionTypes)) |->
        [unit |-> k, page |-> 1]]

NoRequest == [unit |-> 0, page |-> 0]

FreeSlot == [pc |-> "free", req |-> NoRequest, kind |-> "none", n |-> 0,
             idx |-> 0]

\* what a loaded page holds: the __NEXT_DATA__ script with a listings
\* array, the script with no text or with text JSON.parse rejects, or no
\* script (the DOM fallback looks for cards)
PageKinds == {"nextData", "nextDataBroken", "dom"}

\* `currentPage + 1`; the handler reads the number for nothing else, so the
\* pages past MaxPage + 1 are not told apart
NextPageNo(p) == IF p <= MaxPage THEN p + 1 ELSE p

\* how one card of the DOM fallback can go: `continue` on a card without
\* title or link, or the record is built and saved like a listing
CardOutcomes ==
    { [parse |-> "skipped", post |-> "none", push |-> "none"] }
    \cup { o \in EntryOutcomes : o.parse = "ok" }

WantsNextPageNonEmpty(n, total, cutoff) == n > 0

\* `if (listings.length > 0 && totalScraped < maxProperties)`
WantsNextPage(n, total, cutoff) == n > 0 /\ total < cutoff

HandlerBranchFallback(kind) ==
    IF kind = "nextData" THEN "listings" ELSE "cards"

HandlerBranchListings(kind) ==
    IF kind = "nextDataBroken" THEN "return" ELSE "listings"

\* `if (nextDataScript) { if (nextDataText) { try {...} catch {...} } }
\* else { DOM fallback }`: the listing loop, the card loop, or nothing
\* (no text; or text JSON.parse rejects, which the catch logs)
HandlerBranch(kind) ==
    CASE kind = "nextData" -> "listings"
      [] kind = "dom" -> "cards"
      [] OTHER -> "return"

\* the slots that hold a request
Active == { s \in Slots : bzSlots[s].pc # "free" }

CanStartAlways(active) == TRUE

\* the crawler starts a request only below its concurrency limit
CanStart(active) == Cardinality(active) < MaxConcurrency

IdleBz ==
    /\ bzMaxProperties = 0
    /\ bzTotalScraped = 0
    /\ bzQueue = <<>>
    /\ bzSlots = [s \in Slots |-> FreeSlot]
    /\ bzpc = "unused"
    /\ bzLast = NoEntry
    /\ bzWaited = FALSE
    /\ bzEnded = "none"

InitBz ==
    /\ bzMaxProperties \in 0..MaxCutoff
    /\ bzTotalScraped = 0
    /\ \E inp \in ScrapingInputs :
         bzQueue = BzStartUrls(inp.cities, inp.propertyTypes)
    /\ bzSlots = [s \in Slots |-> FreeSlot]
    /\ bzpc = "run"
    /\ bzLast = NoEntry
    /\ bzWaited = FALSE
    /\ bzEnded = "none"

\* the crawler takes the next request and starts loading its page
BzNavigate(s) ==
    /\ UNCHANGED notBz
    /\ bzEnded' = "none"
    /\ bzpc = "run"
    /\ bzQueue # <<>>
    /\ bzSlots[s].pc = "free"
    /\ CanStart(Active)
    /\ bzSlots' = [bzSlots EXCEPT ![s] =
                     [FreeSlot EXCEPT !.pc = "loading", !.req = Head(bzQueue)]]
    /\ bzQueue' = Tail(bzQueue)
    /\ bzWaited' = FALSE
    /\ UNCHANGED <<bzMaxProperties, bzTotalScraped, bzpc, bzLast>>

\* the page cannot be loaded: the crawler gives the request up
BzLoadFails(s) ==
    /\ UNCHANGED notBz
    /\ bzEnded' = "loadFailed"
    /\ bzSlots[s].pc = "loading"
    /\ bzSlots' = [bzSlots EXCEPT ![s] = FreeSlot]
    /\ UNCHANGED <<bzMaxProperties, bzTotalScraped, bzQueue, bzpc, bzLast,
                   bzWaited>>

\* the page is loaded: the handler is called with it
BzLoaded(s) ==
    /\ UNCHANGED notBz
    /\ UNCHANGED bzEnded
    /\ bzSlots[s].pc = "loading"
    /\ \E k \in PageKinds, n \in 0..MaxPageLen :
        /\ (k = "nextDataBroken") => (n = 0)
        /\ bzSlots' = [bzSlots EXCEPT ![s].pc = "handler", ![s].kind = k,
                                      ![s].n = n]
    /\ UNCHANGED <<bzMaxProperties, bzTotalScraped, bzQueue, bzpc, bzLast,
                   bzWaited>>

\* `if (totalScraped >= maxProperties) return;`
BzHandlerReturn(s) ==
    /\ UNCHANGED notBz
    /\ bzEnded' = "cutoff"
    /\ bzSlots[s].pc = "handler"
    /\ bzTotalScraped >= bzMaxProperties
    /\ bzSlots' = [bzSlots EXCEPT ![s] = FreeSlot]
    /\ UNCHANGED <<bzMaxProperties, bzTotalScraped, bzQueue, bzpc, bzLast,
                   bzWaited>>

\* `await rateLimiter.wait()` begins
BzWaitBegin(s) ==
    /\ UNCHANGED notBz
    /\ UNCHANGED bzEnded
    /\ bzSlots[s].pc = "handler"
    /\ bzTotalScraped < bzMaxProperties
    /\ bzSlots' = [bzSlots EXCEPT ![s].pc = "wait"]
    /\ UNCHANGED <<bzMaxProperties, bzTotalScraped, bzQueue, bzpc, bzLast,
                   bzWaited>>

\* the wait is over; the handler looks for the script: its listings, the
\* outer catch (or nothing) when the text is unusable, or the cards
BzWaitDone(s) ==
    /\ UNCHANGED notBz
    /\ bzEnded' = IF HandlerBranch(bzSlots[s].kind) = "return"
                  THEN "unusableText" ELSE bzEnded
    /\ bzSlots[s].pc = "wait"
    /\ bzSlots' = [bzSlots EXCEPT ![s] =
         IF HandlerBranch(bzSlots[s].kind) = "return" THEN FreeSlot
         ELSE [bzSlots[s] EXCEPT !.pc = HandlerBranch(bzSlots[s].kind),
                                 !.idx = 1]]
    /\ bzWaited' = TRUE
    /\ UNCHANGED <<bzMaxProperties, bzTotalScraped, bzQueue, bzpc, bzLast>>

\* one iteration of `for (const listing of listings)`; what the inner
\* catch throws lands in the outer catch and the handler is over
BzListing(s) ==
    /\ UNCHANGED notBz
    /\ bzSlots[s].pc = "listings"
    /\ bzSlots[s].idx <= bzSlots[s].n
    /\ bzTotalScraped < bzMaxProperties
    /\ \E o \in EntryOutcomes :
        /\ bzLast' = o
        /\ bzTotalScraped' = IF Counted(o) THEN bzTotalScraped + 1
                             ELSE bzTotalScraped
        /\ bzSlots' = [bzSlots EXCEPT ![s] =
             IF CatchLogThrows(o) THEN FreeSlot
             ELSE [bzSlots[s] EXCEPT !.idx = @ + 1]]
        /\ bzEnded' = IF CatchLogThrows(o) THEN "outerCatch" ELSE bzEnded
    /\ UNCHANGED <<bzMaxProperties, bzQueue, bzpc, bzWaited>>

\* the loop is over (all listings, or `break` at the cutoff): the test
\* for a next page, `listings.length > 0 && totalScraped < maxProperties`
BzListingsEnd(s) ==
    /\ UNCHANGED notBz
    /\ bzEnded' = "listingsEnd"
    /\ bzSlots[s].pc = "listings"
    /\ bzSlots[s].idx > bzSlots[s].n \/ bzTotalScraped >= bzMaxProperties
    /\ bzQueue' = IF WantsNextPage(bzSlots[s].n, bzTotalScraped,
                                   bzMaxProperties)
                  THEN Append(bzQueue,
                              [unit |-> bzSlots[s].req.unit,
                               page |-> NextPageNo(bzSlots[s].req.page)])
                  ELSE bzQueue
    /\ bzSlots' = [bzSlots EXCEPT ![s] = FreeSlot]
    /\ UNCHANGED <<bzMaxProperties, bzTotalScraped, bzpc, bzLast, bzWaited>>

\* one iteration of `for (const card of propertyCards)`
BzCard(s) ==
    /\ UNCHANGED notBz
    /\ UNCHANGED bzEnded
    /\ bzSlots[s].pc = "cards"
    /\ bzSlots[s].idx <= bzSlots[s].n
    /\ bzTotalScraped < bzMaxProperties
    /\ \E o \in CardOutcomes :
        /\ bzLast' = o
        /\ bzTotalScraped' = IF Counted(o) THEN bzTotalScraped + 1
                             ELSE bzTotalScraped
    /\ bzSlots' = [bzSlots EXCEPT ![s].idx = @ + 1]
    /\ UNCHANGED <<bzMaxProperties, bzQueue, bzpc, bzWaited>>

\* the cards are done: the DOM fallback asks for no next page
BzCardsEnd(s) ==
    /\ UNCHANGED notBz
    /\ bzEnded' = "cardsEnd"
    /\ bzSlots[s].pc = "cards"
    /\ bzSlots[s].idx > bzSlots[s].n \/ bzTotalScraped >= bzMaxProperties
    /\ bzSlots' = [bzSlots EXCEPT ![s] = FreeSlot]
    /\ UNCHANGED <<bzMaxProperties, bzTotalScraped, bzQueue, bzpc, bzLast,
                   bzWaited>>

\* crawler.run resolves when the queue is empty and no request is in
\* progress: the final console.log and Actor.exit
BzFinish ==
    /\ UNCHANGED notBz
    /\ UNCHANGED bzEnded
    /\ bzpc = "run"
    /\ bzQueue = <<>>
    /\ Active = {}
    /\ bzpc' = "done"
    /\ UNCHANGED <<bzMaxProperties, bzTotalScraped, bzQueue, bzSlots, bzLast,
                   bzWaited>>

NextBz ==
    \/ \E s \in Slots : BzNavigate(s)
    \/ \E s \in Slots : BzLoadFails(s)
    \/ \E s \in Slots : BzLoaded(s)
    \/ \E s \in Slots : BzHandlerReturn(s)
    \/ \E s \in Slots : BzWaitBegin(s)
    \/ \E s \in Slots : BzWaitDone(s)
    \/ \E s \in Slots : BzListing(s)
    \/ \E s \in Slots : BzListingsEnd(s)
    \/ \E s \in Slots : BzCard(s)
    \/ \E s \in Slots : BzCardsEnd(s)
    \/ BzFinish

-----------------------------------------------------------------------------
(* Specifications *)

IdleListing ==
    /\ cities = <<>> /\ propertyTypes = <<>> /\ maxProperties = 0
    /\ totalScraped = 0 /\ pc = "unused" /\ unit = 1 /\ page = 1
    /\ hasMore = TRUE /\ response = NoResponse /\ idx = 1
    /\ fetched = <<>> /\ lastFetch = "none" /\ scenario = 0 /\ parsed = 0
    /\ unitScraped = 0 /\ unitClean = TRUE /\ saveCalls = 0 /\ delivered = 0
    /\ lastEntry = NoEntry

\* the components that take no part in a run of one of them
IdleOthers ==
    IdleBz /\ IdleSp /\ IdleId /\ IdleRc /\ IdleParse /\ IdleUrl
    /\ IdleUi

InitListing ==
    InitListingVars /\ IdleRateLimiter /\ IdleRetry /\ IdleCuzk /\ IdleOthers

InitRate ==
    IdleListing /\ InitRateLimiter /\ IdleRetry /\ IdleCuzk /\ IdleOthers

InitRetryRun ==
    IdleListing /\ IdleRateLimiter /\ InitRetry /\ IdleCuzk /\ IdleOthers

InitCuzkRun ==
    IdleListing /\ IdleRateLimiter /\ IdleRetry /\ InitCuzk /\ IdleOthers

InitBzRun ==
    IdleListing /\ IdleRateLimiter /\ IdleRetry /\ IdleCuzk /\ InitBz
    /\ IdleSp /\ IdleId /\ IdleRc /\ IdleParse /\ IdleUrl
    /\ IdleUi

InitSpRun ==
    IdleListing /\ IdleRateLimiter /\ IdleRetry /\ IdleCuzk /\ IdleBz
    /\ InitSp /\ IdleId /\ IdleRc /\ IdleParse /\ IdleUrl
    /\ IdleUi

InitIdRun ==
    IdleListing /\ IdleRateLimiter /\ IdleRetry /\ IdleCuzk /\ IdleBz
    /\ IdleSp /\ InitId /\ IdleRc /\ IdleParse /\ IdleUrl
    /\ IdleUi

\* a fresh RateLimiter handed to several callers
InitRateShared ==
    IdleListing /\ InitRateLimiter /\ IdleRetry /\ IdleCuzk /\ IdleOthers

SpecSreality == InitListing /\ [][NextSreality]_vars

SpecRate == InitRate /\ [][NextRate]_vars

SpecRateShared == InitRateShared /\ [][NextRateShared]_vars

SpecRetry == InitRetryRun /\ [][NextRetry]_vars

SpecCuzk == InitCuzkRun /\ [][NextCuzk]_vars

SpecSaveAll == InitSpRun /\ [][NextSp]_vars

SpecIdentity == InitIdRun /\ [][NextId]_vars

\* one call of a rooms parser or builder, the other components unused
InitRoomsRun ==
    IdleListing /\ IdleRateLimiter /\ IdleRetry /\ IdleCuzk /\ IdleBz
    /\ IdleSp /\ IdleId /\ IdleRc /\ InitRooms /\ IdleUrl
    /\ IdleUi

SpecRooms == InitRoomsRun /\ [][NextRooms]_vars

\* one call of parsePrice, the other components unused
InitPriceRun ==
    IdleListing /\ IdleRateLimiter /\ IdleRetry /\ IdleCuzk /\ IdleBz
    /\ IdleSp /\ IdleId /\ IdleRc /\ InitPrice /\ IdleUrl
    /\ IdleUi

SpecPrice == InitPriceRun /\ [][NextPrice]_vars

\* one call of extractCity or extractDistrict, the other components unused
InitLocalityRun ==
    IdleListing /\ IdleRateLimiter /\ IdleRetry /\ IdleCuzk /\ IdleBz
    /\ IdleSp /\ IdleId /\ IdleRc /\ InitLocality /\ IdleUrl
    /\ IdleUi

SpecLocality == InitLocalityRun /\ [][NextLocality]_vars

\* one work unit of the bezrealitky job, the other components unused
InitUrlRun ==
    IdleListing /\ IdleRateLimiter /\ IdleRetry /\ IdleCuzk /\ IdleBz
    /\ IdleSp /\ IdleId /\ IdleRc /\ IdleParse /\ InitUrl /\ IdleUi

SpecUrl == InitUrlRun /\ [][NextUrl]_vars

\* the chatbot alone
InitCbRun ==
    IdleListing /\ IdleRateLimiter /\ IdleRetry /\ IdleCuzk /\ IdleBz
    /\ IdleSp /\ IdleId /\ IdleRc /\ IdleParse /\ IdleUrl /\ InitCb
    /\ IdlePp

SpecChatbot == InitCbRun /\ [][NextCb]_vars

\* the properties page alone
InitPpRun ==
    IdleListing /\ IdleRateLimiter /\ IdleRetry /\ IdleCuzk /\ IdleBz
    /\ IdleSp /\ IdleId /\ IdleRc /\ IdleParse /\ IdleUrl /\ IdleCb
    /\ InitPp

SpecPropertiesPage == InitPpRun /\ [][NextPp]_vars

\* a run of one of the two listing jobs
SpecListingJobs ==
    (InitListing \/ InitBzRun) /\ [][NextSreality \/ NextBz]_vars

SpecBz == InitBzRun /\ [][NextBz]_vars

\* the event loop runs a step whenever one can be taken
SpecBzLive == SpecBz /\ WF_vars(NextBz)

-----------------------------------------------------------------------------
(* Claims about the listing job *)

Last(s) == s[Len(s)]

\* C1 (as claimed): the records the persistence API has accepted during a
\* run never exceed the cutoff maxProperties.
C1_DeliveredWithinCutoff == delivered <= maxProperties

\* C2 (as claimed): the saveProperty calls issued during a run never exceed
\* maxProperties + (page size - 1).
C2_SaveCallsWithinCutoff == saveCalls <= maxProperties + (MaxPageLen - 1)

C11_FetchErrorEndsOnlyUnit ==
    /\ [](lastFetch = "error" => pc \in {"while", "unit", "done"})
    /\ [][totalScraped' >= totalScraped]_vars
    /\ [][(pc = "while" /\ lastFetch = "error")
             => (pc' = "unit" /\ unit' = unit + 1)]_vars
    /\ [][(pc = "unit" /\ unit <= Len(Units))
             => (pc' = "while" /\ unit' = unit /\ page' = 1 /\ hasMore'
                 /\ fetched' = <<>>)]_vars
    /\ [][(pc = "while" /\ fetched = <<>> /\ totalScraped < maxProperties)
             => (pc' = "fetch" /\ page' = 1)]_vars

\* page 2 of a unit failed after page 1 yielded a record, the cutoff is not
\* reached and a later unit is about to start
C11_Witness ==
    /\ pc = "unit"
    /\ lastFetch = "error"
    /\ fetched = <<1, 2>>
    /\ unitScraped >= 1
    /\ totalScraped < maxProperties
    /\ unit <= Len(Units)

C12_EntryErrorKeepsPage ==
    [][(pc = "entries" /\ idx' = idx + 1 /\ totalScraped' = totalScraped)
          => (pc' = "entries" /\ hasMore' = hasMore)]_vars

\* the units of a run configuration in its own nested order: city in the
\* order of the configured list, then property type, then transaction type
ConfiguredOrder(cs, pts) ==
    LET b == Len(pts)
        c == Len(transactionTypes)
    IN [k \in 1..(Len(cs) * b * c) |->
            [city      |-> cs[((k - 1) \div (b * c)) + 1],
             propType  |-> pts[(((k - 1) \div c) % b) + 1],
             transType |-> transactionTypes[((k - 1) % c) + 1]]]

\* C24 (as stated): the unit being processed is the one at the same place
\* of the configured nested order, and when the run is over every unit of
\* every configured city has had its turn.
C24_UnitsInConfiguredOrder ==
    LET want == ConfiguredOrder(cities, propertyTypes)
    IN /\ (pc \in {"while", "fetch", "entries", "pageEnd"})
             => (unit <= Len(want) /\ Units[unit] = want[unit])
       /\ (pc = "done") => (unit = Len(want) + 1)

-----------------------------------------------------------------------------
(* Claims about RateLimiter *)

\* ceil(a / b), written out
CeilOf(a, b) == IF a % b = 0 THEN a \div b ELSE (a \div b) + 1

Spacing == CeilOf(60000, requestsPerMinute)

\* C3: any two consecutive wait() calls of one caller complete at least
\* ceil(60000 / requestsPerMinute) ms apart, whatever the idle time between
\* them.
C3_ConsecutiveCompletionsSpaced ==
    \A i \in 1..(Len(completions) - 1) :
        completions[i + 1] - completions[i] >= Spacing

\* C3 witness: the second call came after an idle period longer than the
\* spacing and did not sleep; the third call followed at once and was held
\* back for the full spacing.
C3_Witness ==
    /\ Len(completions) = 3
    /\ starts[2] - completions[1] > Spacing
    /\ sleeps[2] = 0
    /\ starts[3] = completions[2]
    /\ sleeps[3] = Spacing
    /\ completions[3] - completions[2] = Spacing

\* C4 (as claimed): the first wait() on a fresh RateLimiter never sleeps.
C4_FirstWaitNeverSleeps == Len(sleeps) >= 1 => sleeps[1] = 0

\* C5 (as claimed): the N-th wait() starts at least (N-1) * ceil(60000/R) ms
\* after the first one started.
C5_StartsSpaced ==
    \A n \in 1..Len(starts) : starts[n] - starts[1] >= (n - 1) * Spacing

\* C5 (amended): the N-th wait() completes at least (N-1) * ceil(60000/R) ms
\* after the first one completed.
C5_CompletionsSpaced ==
    \A n \in 1..Len(completions) :
        completions[n] - completions[1] >= (n - 1) * Spacing

\* C5 witness: three calls issued back to back: their starts are closer
\* than two spacings, their completions exactly two spacings apart.
C5_Witness ==
    /\ Len(completions) = 3
    /\ starts[3] - starts[1] < 2 * Spacing
    /\ completions[3] - completions[1] = 2 * Spacing

\* C21: with several callers the spacing is lost, and only through
\* interleaving: whenever two consecutive completions are closer than the
\* spacing, the later call read lastRequestTime before the earlier call
\* wrote it (it had found fewer completed calls than have completed before
\* it); a call that reads after the previous completion is held back as in
\* the single-caller case.
C21_CloseOnlyWhenInterleaved ==
    \A j \in 2..Len(rcCalls) :
        (rcCalls[j].end - rcCalls[j - 1].end < Spacing)
            => rcCalls[j].seen < j - 1

\* two calls by different callers both read lastRequestTime before either
\* wrote it, and completed less than minDelayMs apart
C21_Witness ==
    /\ Len(rcCalls) >= 2
    /\ rcCalls[1].by # rcCalls[2].by
    /\ rcCalls[1].seen = 0
    /\ rcCalls[2].seen = 0
    /\ minDelayMs > 1
    /\ rcCalls[2].end - rcCalls[1].end < minDelayMs

-----------------------------------------------------------------------------
(* Claims about retry *)

\* fn fails on its first k-1 invocations and succeeds on the k-th
SucceedsAt(k) ==
    /\ k \in DOMAIN fn
    /\ fn[k].ok
    /\ \A j \in 1..(k - 1) : ~fn[j].ok

\* fn fails on each of its first n invocations
FailsThrough(n) == \A j \in 1..n : j \in DOMAIN fn /\ ~fn[j].ok

\* C6 (as claimed): when fn fails k-1 times and then succeeds, with
\* 1 <= k <= maxRetries, retry returns fn's value after exactly k invocations.
C6_ReturnsAfterKAttempts ==
    rpc = "done" =>
        \A k \in 1..maxRetries :
            SucceedsAt(k) =>
                /\ settled = [kind |-> "returned", value |-> fn[k].val]
                /\ invocations = k

\* C7 (as claimed): when fn fails on every invocation, retry invokes it
\* exactly maxRetries times and rejects with the reason of the last one.
C7_RejectsWithLastError ==
    (rpc = "done" /\ maxRetries >= 1 /\ FailsThrough(maxRetries)) =>
        /\ invocations = maxRetries
        /\ settled = [kind |-> "rejected", value |-> fn[maxRetries].val]

\* C8: the i-th sleep follows the failed attempt with zero-based index i-1
\* and lasts baseDelay * 2^(i-1) ms; when fn is about to be invoked, every
\* earlier attempt has been followed by its sleep; once retry has settled
\* there is one sleep less than attempts, so none follows the final attempt
\* (a success or the last failure).
C8_BackoffSchedule ==
    /\ \A i \in 1..Len(sleepLog) :
          /\ sleepLog[i].after = i - 1
          /\ sleepLog[i].ms = baseDelay * (2 ^ (i - 1))
    /\ (rpc = "loop" /\ attempt < maxRetries) => Len(sleepLog) = invocations
    /\ (rpc = "sleep") => Len(sleepLog) = invocations
    /\ (rpc = "done") => Len(sleepLog) = Max(0, invocations - 1)

\* C8 witness: three failed attempts with the default base delay, the last
\* one final: sleeps of 1000 and 2000 ms, none after the third attempt.
C8_Witness ==
    /\ rpc = "done"
    /\ baseDelay = 1000
    /\ maxRetries = 3
    /\ invocations = 3
    /\ settled.kind = "rejected"
    /\ sleepLog = << [after |-> 0, ms |-> 1000], [after |-> 1, ms |-> 2000] >>

\* C37: with maxRetries <= 0 retry never invokes fn and never sleeps; it
\* settles by rejecting, and the reason is undefined (no Error was caught).
C37_NoAttemptRejectsUndefined ==
    maxRetries <= 0 =>
        /\ invocations = 0
        /\ sleepLog = <<>>
        /\ rpc \in {"loop", "done"}
        /\ rpc = "done" =>
              settled = [kind |-> "rejected", value |-> "undefined"]

\* retry(fn, 0) has settled
C37_Witness ==
    /\ maxRetries = 0
    /\ rpc = "done"
    /\ invocations = 0
    /\ settled.kind = "rejected"

-----------------------------------------------------------------------------
(* Claims about the enrichment job *)

\* C9 (as claimed): a property whose lookup failed on the network is not
\* given up on after a single attempt: the lookup is sent again first.
C9_NetworkFailureRetried ==
    (verdict = "failed" /\ netFailure) =>
        (lookups.ruian >= 2 \/ lookups.wfs >= 2)

\* C26: for each property the RUIAN lookup is issued first and once; the
\* WFS lookup is issued (once, after it) exactly when RUIAN answered null;
\* a property for which both answered null is counted as a no-result and
\* has no PATCH; a property with data from either lookup has exactly one
\* PATCH.
C26_LookupOrderAndPatch ==
    /\ cpc = "ruian" => lookups = NoLookups
    /\ cpc = "wfs" =>
          /\ lookups = [ruian |-> 1, wfs |-> 0, patch |-> 0]
          /\ cadastralData = "null"
    /\ cpc = "patch" =>
          /\ lookups.ruian = 1 /\ lookups.wfs \in {0, 1}
          /\ lookups.patch = 0
          /\ cadastralData # "null"
    /\ verdict # "none" =>
          /\ lookups.ruian = 1 /\ lookups.wfs \in {0, 1}
          /\ IF cadastralData = "null"
             THEN lookups.wfs = 1 /\ lookups.patch = 0
                  /\ verdict = "failed"
             ELSE lookups.patch = 1

\* a property whose RUIAN lookup answered null, whose WFS lookup found a
\* feature and which was patched; and before it one with no result at all
C26_Witness ==
    /\ lookups = [ruian |-> 1, wfs |-> 1, patch |-> 1]
    /\ prop = 2
    /\ failed = 1
    /\ enriched = 1

\* C31: every property of the work list increments exactly one of enriched
\* and failed, once: after k properties the counters add up to k, and at
\* the end of the run to the length of the work list.
C31_CountersAddUp ==
    /\ cpc = "loop" => enriched + failed = prop
    /\ cpc \in {"ruian", "wfs", "patch"} => enriched + failed = prop - 1
    /\ cpc = "done" => enriched + failed = Len(properties)

\* a finished run over a full work list with one property whose PATCH threw
\* and one enriched property
C31_Witness ==
    /\ cpc = "done"
    /\ Len(properties) = MaxProps
    /\ patched = "networkError"
    /\ failed >= 1
    /\ enriched >= 1

\* C32 (as stated): a property counted as enriched was patched with data
\* that carries a cadastral number, and its PATCH was accepted.
C32_EnrichedMeansStored ==
    verdict = "enriched"
        => /\ cadastralData = "withNumber"
           /\ PostAccepted(patched)

\* C33 (as stated): with a non-empty propertyIds list the work list holds
\* the requested properties and each of them gets a lookup.
C33_RequestedIdsProcessed ==
    (input.kind = "propertyIds" /\ input.n > 0 /\ cpc # "select")
        => /\ Len(properties) = input.n
           /\ cpc = "done" => prop = input.n

-----------------------------------------------------------------------------
(* Claims about the bezrealitky job *)

\* the slots with a rate-limiter wait or a page load in progress
Busy == { s \in Slots : bzSlots[s].pc \in {"loading", "wait"} }

\* C13 (as stated): once the running total has reached the cutoff after a
\* page (a total of at least 1), the job issues no further work: no slot
\* starts a page load or a rate-limiter wait, no listing or card is saved
\* and no request is enqueued.
C13_NoWorkAfterCutoff ==
    [][(bzTotalScraped >= bzMaxProperties /\ bzTotalScraped >= 1)
          => /\ \A s \in Slots :
                  bzSlots'[s].pc \in {"loading", "wait"}
                      => bzSlots'[s].pc = bzSlots[s].pc
             /\ bzLast' = bzLast
             /\ Len(bzQueue') <= Len(bzQueue)]_vars

\* C22 (as stated): every page load is preceded by a rateLimiter.wait()
\* that completed after the previous page load was issued.
C22_LoadPrecededByWait ==
    [][(\E s \in Slots :
           bzSlots[s].pc = "free" /\ bzSlots'[s].pc = "loading")
          => bzWaited]_vars

\* C14 (as stated): every run terminates and reaches the statement that
\* reports its final counters, whatever the source and the persistence
\* API do.
C14_RunReportsCounters == <>(bzpc = "done")

C34_UnusableTextEndsHandler ==
    [][\A s \in Slots :
          (bzSlots[s].kind = "nextDataBroken" /\ bzSlots'[s] # bzSlots[s])
          => /\ bzSlots'[s].pc \in {"wait", "free"}
             /\ bzTotalScraped' = bzTotalScraped
             /\ bzQueue' = bzQueue
             /\ bzSlots'[s].pc = "free"
                   => bzEnded' \in {"cutoff", "unusableText"}]_vars

\* such a page was handled below the cutoff while another request waits
C34_Witness ==
    /\ bzEnded = "unusableText"
    /\ bzTotalScraped < bzMaxProperties
    /\ bzQueue # <<>>
    /\ Active = {}

\* C35: the DOM fallback enqueues nothing: while a request whose page has
\* no __NEXT_DATA__ element is handled the queue does not change, however
\* many cards the page holds.
C35_DomFallbackEnqueuesNothing ==
    [][\A s \in Slots :
          (bzSlots[s].kind = "dom" /\ bzSlots'[s] # bzSlots[s])
          => /\ bzQueue' = bzQueue
             /\ bzSlots'[s].pc \in {"wait", "cards", "free"}]_vars

\* a page of cards gave a record, the total is below the cutoff and the run
\* ends with an empty queue
C35_Witness ==
    /\ bzEnded = "cardsEnd"
    /\ Counted(bzLast)
    /\ bzTotalScraped >= 1
    /\ bzTotalScraped < bzMaxProperties
    /\ bzQueue = <<>>
    /\ bzpc = "done"

\* saveProperty returned (also with a response that is not 2xx) and
\* Actor.pushData returned
BothReturned(o) ==
    o.parse = "ok" /\ o.post \in {"ok", "non2xx"} /\ o.push = "ok"

\* C40: in both listing jobs the total starts at 0, never decreases, and
\* changes only when an entry (estate, listing or card) is processed: it
\* grows by one exactly when saveProperty and Actor.pushData both returned
\* for that entry.
C40_TotalCountsReturnedEntries ==
    /\ totalScraped = 0 /\ bzTotalScraped = 0
    /\ [][/\ IF pc = "entries" /\ idx' = idx + 1
             THEN totalScraped' =
                      totalScraped + (IF BothReturned(lastEntry') THEN 1
                                      ELSE 0)
             ELSE totalScraped' = totalScraped
          /\ IF \E s \in Slots :
                   /\ bzSlots[s].pc \in {"listings", "cards"}
                   /\ bzSlots[s].idx <= bzSlots[s].n
                   /\ bzSlots'[s] # bzSlots[s]
                   /\ bzTotalScraped < bzMaxProperties
             THEN bzTotalScraped' =
                      bzTotalScraped + (IF BothReturned(bzLast') THEN 1
                                        ELSE 0)
             ELSE bzTotalScraped' = bzTotalScraped]_vars

\* an entry whose save was answered with a non-2xx response was counted by
\* the sreality job
C40_Witness ==
    /\ lastEntry = [parse |-> "ok", post |-> "non2xx", push |-> "ok"]
    /\ totalScraped >= 2

\* C19 (as stated): a listing or card that was normalized (saveProperty
\* was called with its record) is also handed to Actor.pushData, whatever
\* the persistence call did.
C19_NormalizedIsPushed == (bzLast.parse = "ok") => (bzLast.push # "none")

\* C20: at most one rate-limiter wait or page load is in progress at any
\* time, and no slot starts one while another slot holds a request.
C20_OneRequestAtATime ==
    /\ Cardinality(Busy) <= 1
    /\ Cardinality(Active) <= 1

\* a wait is in progress while another request is queued and a slot is
\* free to take it
C20_Witness ==
    /\ \E s \in Slots : bzSlots[s].pc = "wait"
    /\ \E s \in Slots : bzSlots[s].pc = "free"
    /\ bzQueue # <<>>

-----------------------------------------------------------------------------
(* Claims about saveProperties *)

\* the elements of the list whose POST does o
ItemsWith(o) == { i \in DOMAIN spItems : spItems[i] = o }

\* C15 (as stated): a non-2xx response is not thrown by saveProperty, and
\* saveProperties reports the item as failed, not as saved: the returned
\* failed counter covers every non-2xx item and the saved counter only
\* items the API accepted.
C15_Non2xxReportedFailed ==
    /\ ~SavePropertyThrows("non2xx")
    /\ (sppc = "returned")
          => /\ spFailed >= Cardinality(ItemsWith("non2xx"))
             /\ spSaved <= Cardinality(ItemsWith("ok"))

\* C16: saveProperties calls saveProperty exactly once for every element,
\* in list order, whatever the earlier elements did; it ends by returning
\* (it has no throwing exit), and its counters add up to the number of
\* elements attempted, which at the return is the length of the list.
C16_EveryItemAttemptedOnce ==
    /\ spAttempts = [i \in 1..(spIdx - 1) |-> i]
    /\ spSaved + spFailed = Len(spAttempts)
    /\ sppc \in {"loop", "returned"}
    /\ (sppc = "returned")
          => /\ Len(spAttempts) = Len(spItems)
             /\ spSaved + spFailed = Len(spItems)

\* a full list whose first save threw and whose second was accepted
C16_Witness ==
    /\ sppc = "returned"
    /\ Len(spItems) = MaxBatch
    /\ spItems[1] = "networkError"
    /\ spItems[2] = "ok"
    /\ spFailed >= 1
    /\ spSaved >= 1

-----------------------------------------------------------------------------
(* Claims about the identity key *)

\* C17 (as stated): two runs over the unchanged source item hand
\* saveProperty the same (external_id, source) pair.
C17_SameIdentityBothRuns ==
    (idRecord[1].status = "saved" /\ idRecord[2].status = "saved")
        => /\ idRecord[1].external_id = idRecord[2].external_id
           /\ idRecord[1].source = idRecord[2].source

\* C18 (as stated): every record handed to saveProperty has a non-empty
\* external_id and a non-empty source.
C18_SavedRecordHasIdentity ==
    \A r \in Runs :
        (idRecord[r].status = "saved")
            => /\ idRecord[r].external_id.type = "string"
               /\ idRecord[r].external_id.v # <<>>
               /\ idRecord[r].source # ""

\* C27 (as stated): a card of the DOM fallback is discarded exactly when
\* it misses both its title and its link; a card with a title or a link
\* becomes a record.
C27_CardSkippedOnlyWithoutBoth ==
    \A r \in Runs :
        (idEntry.kind = "card" /\ idRecord[r].status # "none")
            => (idRecord[r].status = "skipped"
                   <=> (~idEntry.title /\ idEntry.id.v = <<>>))

-----------------------------------------------------------------------------
(* Claims about the parsing helpers *)

AllDigits(str) == \A i \in 1..Len(str) : IsDigit(str[i])

\* <int>+kk or <int>+<int>, with the length of its <int>
LayoutSplits(str) ==
    { k \in 1..(Len(str) - 2) :
        /\ AllDigits(SubSeq(str, 1, k))
        /\ str[k + 1] = "+"
        /\ \/ SubSeq(str, k + 2, Len(str)) = <<"k", "k">>
           \/ AllDigits(SubSeq(str, k + 2, Len(str))) }

\* the digits the text starts with
DigitPrefix(str) ==
    LET ks == { k \in 0..Len(str) : AllDigits(SubSeq(str, 1, k)) }
    IN  SubSeq(str, 1, CHOOSE k \in ks : \A j \in ks : j <= k)

\* a run of digits without its leading zeros, as a number is written
RECURSIVE Canonical(_)
Canonical(ds) ==
    IF Len(ds) > 1 /\ Head(ds) = "0" THEN Canonical(Tail(ds)) ELSE ds

\* the value is the number the digits ds denote
Denotes(value, ds) ==
    /\ value.type = "number"
    /\ NumberToString(value.v[1]) = Canonical(ds)

\* C28: parseRoomsCount returns the leading integer of every text of the
\* form <int>+kk or <int>+<int> and undefined for every text that does not
\* start with a digit; the rooms_count of a record built by parseEstate or
\* parseListingFromNextData, when present, is the leading integer of the
\* record's rooms text.
C28_RoomsCountIsLeadingInteger ==
    /\ (parseFn = "parseRoomsCount" /\ parseRet # Pending) =>
          /\ \A k \in LayoutSplits(parseArg.v) :
                Denotes(parseRet, SubSeq(parseArg.v, 1, k))
          /\ DigitPrefix(parseArg.v) = <<>> => parseRet = Undefined
    /\ (/\ parseFn \in {"parseEstate", "parseListingFromNextData"}
        /\ parseRet \notin {Pending, Undefined}) =>
          /\ parseRooms.type = "string"
          /\ DigitPrefix(parseRooms.v) # <<>>
          /\ Denotes(parseRet, DigitPrefix(parseRooms.v))

\* parseRoomsCount("12+kk") returned 12
C28_Witness ==
    /\ parseFn = "parseRoomsCount"
    /\ parseArg = StringValue(<<"1", "2", "+", "k", "k">>)
    /\ parseRet = NumberValue(12)

\* digit groups of three, the first of one to three digits, with one blank
\* between groups
SpaceGrouped(body) ==
    /\ body # <<>>
    /\ Len(body) % 4 # 0
    /\ \A i \in 1..Len(body) :
          IF (Len(body) - i + 1) % 4 = 0 THEN body[i] = " "
          ELSE IsDigit(body[i])

\* the end of the text, when it is the currency marker with or without a
\* blank before it
MarkerAtEnd(str) ==
    { m \in {<<"K", "c^">>, <<" ", "K", "c^">>} :
        /\ Len(str) >= Len(m)
        /\ SubSeq(str, Len(str) - Len(m) + 1, Len(str)) = m }

\* C29 (as stated): for a text of blank-separated digit groups followed by
\* the currency marker parsePrice returns the integer the digits denote;
\* for a text whose remainder after the stripping is not a run of digits
\* it returns undefined.
C29_PriceIsDigitsOrAbsent ==
    (parseFn = "parsePrice" /\ parseRet # Pending) =>
        /\ \A m \in MarkerAtEnd(parseArg.v) :
              LET body == SubSeq(parseArg.v, 1, Len(parseArg.v) - Len(m))
              IN  SpaceGrouped(body)
                     => Denotes(parseRet, StripSpaces(body))
        /\ ~(Cleaned(parseArg.v) # <<>> /\ AllDigits(Cleaned(parseArg.v)))
              => parseRet = Undefined

\* the text of a locality, empty for undefined
LocalityText == IF parseArg.type = "string" THEN parseArg.v ELSE <<>>

HasComma == Includes(LocalityText, <<",">>)
HasDash == Includes(LocalityText, <<" ", "-", " ">>)
HasKnownCity ==
    \E c \in 1..Len(KnownCities) : Includes(LocalityText, KnownCities[c])

\* C30 (as stated): the rules are tried in the order known city, comma,
\* dash: the district of a locality with a comma is decided by the comma
\* rule, the dash rule decides only without a comma, a known city in the
\* text is the city, and extractCity and extractDistrict return undefined
\* when no rule applies.
C30_LocalityRulesInOrder ==
    /\ (parseFn = "extractDistrict" /\ parseRet # Pending) =>
          /\ HasComma =>
                parseRet = StringValue(
                               Trim(SplitOn(LocalityText, <<",">>)[1]))
          /\ (~HasComma /\ HasDash) =>
                parseRet = StringValue(
                    Trim(SplitOn(LocalityText, <<" ", "-", " ">>)[2]))
          /\ (~HasComma /\ ~HasDash) => parseRet = Undefined
    /\ (parseFn = "extractCity" /\ parseRet # Pending) =>
          /\ HasKnownCity =>
                /\ parseRet.type = "string"
                /\ parseRet.v \in Range(KnownCities)
          /\ (~HasKnownCity /\ ~HasComma /\ ~HasDash) =>
                parseRet = Undefined

-----------------------------------------------------------------------------
(* Claims about the URL of a work unit *)

\* C36 (as stated): the types the handler derives from the URL of a unit
\* are the unit's own property type and transaction type, for every city.
C36_TypesSurviveUrl ==
    urlTypes # NoTypes
        => /\ urlTypes.propertyType = urlUnit.propertyType
           /\ urlTypes.transactionType = urlUnit.transactionType

-----------------------------------------------------------------------------
(* Claims about the frontend components *)

\* C38 (as stated): from clearConversation until the user's next message
\* the list holds the 'cleared' message only, also when a request was in
\* flight at the clear.
C38_ClearedStaysCleared ==
    cbSinceClear = "cleared" => cbMessages = <<"cleared">>

\* C39 (as stated): when loading is false and error is empty the displayed
\* list and total are the response to the request for the current page
\* and filters.
C39_DisplayedIsCurrent ==
    (ppIssued >= 1 /\ ~ppLoading /\ ppError = "null")
        => /\ ppProperties = RequestKey(ppPage, ppFilter)
           /\ ppTotal = TotalOf(ppFilter)

=============================================================================
